---- MODULE Spec2Model ----
(***************************************************************************)
(* Import/export core of the fitness tracker (fitness_tracker/data_utils.py)*)
(* together with the model layer it writes through (models.py) and the     *)
(* post_save receivers that run on every save (signals.py).                *)
(*                                                                         *)
(* The record store is a pair of tables: workouts and exercises, each a    *)
(* set of rows keyed by pk.  pk order is creation order (created_at).      *)
(* Text that the code parses is kept as text: int(), float() and strptime() *)
(* are tables from literals to values, str() and strftime() the tables     *)
(* read backwards, so a literal that does not parse raises as in Python.   *)
(***************************************************************************)
EXTENDS Integers, Sequences, FiniteSets, TLC

VARIABLES
    workouts,   \* table fitness_workouts: set of rows
    exercises,  \* table fitness_exercises: set of rows
    before,     \* the two tables as they were when the last call started
    last,       \* the last call: its arguments and what it returned or raised
    auth_users, \* table auth_user: the usernames of the accounts
    profiles    \* table fitness_user_profiles: set of rows

vars == <<workouts, exercises, before, last, auth_users, profiles>>

(* ------------------------------ bounds ------------------------------- *)
MaxRows == 2        \* rows / entries / lines of one uploaded payload
MaxWorkouts == 2    \* rows of fitness_workouts
MaxExercises == 2   \* rows of fitness_exercises

(* --------------------------- Python values --------------------------- *)
None == "None"
NoWorkout == [pk |-> 0]

\* the whole numbers that occur as field values
IntValues ==
    {0, 1, 3, 30, 45, 60, 150, 240, 270, 300, 700} \cup
    {d * r : d \in {0, 30, 45, 700}, r \in {3, 5, 6, 7, 8}}

\* int(s): the literals int() accepts, with their values; str(n) is the
\* decimal literal of n
str(n) == ToString(n)
IntTable == { <<str(n), n>> : n \in IntValues }
IsInt(s) == \E p \in IntTable : p[1] = s
int(s) == (CHOOSE p \in IntTable : p[1] = s)[2]

\* float(s) accepts the int literals and the literals with a fraction part;
\* str(x) of a float always has the fraction part.  The floats of the model
\* are whole numbers of kilograms.
FloatValues == {0, 10, 2000}
strfloat(x) == ToString(x) \o ".0"
FloatTable == { <<strfloat(x), x>> : x \in FloatValues }
IsFloat(s) == IsInt(s) \/ \E p \in FloatTable : p[1] = s
float(s) == IF IsInt(s) THEN int(s) ELSE (CHOOSE p \in FloatTable : p[1] = s)[2]

\* datetime.strptime(s, '%Y-%m-%d').date() and date.strftime('%Y-%m-%d'):
\* dates are day ordinals
DateTable ==
    { <<"2024-01-01", 1>>, <<"2024-01-02", 2>>, <<"2999-01-01", 9>> }
IsDate(s) == \E p \in DateTable : p[1] = s
strptime(s) == (CHOOSE p \in DateTable : p[1] = s)[2]
strftime(d) == (CHOOSE p \in DateTable : p[2] = d)[1]

(* ------------------------------ models ------------------------------- *)
WORKOUT_TYPES == {"cardio", "strength", "flexibility", "sports", "mixed", "other"}
EXERCISE_CATEGORIES ==
    {"chest", "back", "shoulders", "arms", "legs", "core", "cardio", "full_body", "other"}

\* the integer fields of an instance that hold a str rather than an int.  A
\* row never has any; an instance has them when it was built from a JSON
\* document that spells a number as a string.
Strings(inst) == IF "strings" \in DOMAIN inst THEN inst.strings ELSE {}

\* a Workout instance: pk, owner and the six scalar fields, as assigned
Workout(pk, user, f) ==
    [pk |-> pk, user |-> user, name |-> f.name, workout_type |-> f.workout_type,
     date |-> f.date, duration |-> f.duration, calories_burned |-> f.calories_burned,
     notes |-> f.notes, strings |-> Strings(f)]

\* IntegerField.get_prep_value: int(value) on the way to the row
get_prep_value(inst, k) == IF k \in Strings(inst) THEN int(inst[k]) ELSE inst[k]
PrepRaises(inst) == \E k \in Strings(inst) : ~IsInt(inst[k])

\* the row an instance is written to
Row(inst) == [k \in DOMAIN inst \ {"strings"} |-> get_prep_value(inst, k)]

\* an Exercise instance: pk, owning workout (by pk) and the seven fields
Exercise(pk, wpk, f) ==
    [pk |-> pk, workout |-> wpk, exercise_name |-> f.exercise_name,
     category |-> f.category, sets |-> f.sets, reps |-> f.reps, weight |-> f.weight,
     rest_time |-> f.rest_time, notes |-> f.notes]

\* Exercise.is_bodyweight
is_bodyweight(e) == e.weight = 0

\* Exercise.clean: the cross-field rule (run by full_clean only)
ExerciseClean(e) == ~(e.weight > 0 /\ e.reps > 100)

\* timezone.now().date(): the day the calls are made, as a day ordinal
today == 2

\* Workout.clean: the date rule (run by full_clean only)
WorkoutClean(w) == ~(w.date > today)

\* the field validators of Workout and Exercise (run by full_clean only)
WorkoutValid(w) ==
    /\ w.workout_type \in WORKOUT_TYPES
    /\ w.duration >= 1 /\ w.duration <= 600
    /\ w.calories_burned >= 0 /\ w.calories_burned <= 5000
ExerciseValid(e) ==
    /\ e.category \in EXERCISE_CATEGORIES
    /\ e.sets >= 1 /\ e.sets <= 50
    /\ e.reps >= 1 /\ e.reps <= 1000
    /\ e.weight >= 0 /\ e.weight <= 1000
    /\ e.rest_time >= 0 /\ e.rest_time <= 600

(* ------------------------------ signals ------------------------------ *)
calorie_rates(t) ==
    CASE t = "cardio" -> 8
      [] t = "strength" -> 6
      [] t = "flexibility" -> 3
      [] t = "sports" -> 7
      [] t = "mixed" -> 6
      [] t = "other" -> 5
      [] OTHER -> 5

\* Workout.objects.filter(pk=pk).update(calories_burned=c)
UpdateCalories(ws, pk, c) ==
    { IF w.pk = pk THEN [w EXCEPT !.calories_burned = c] ELSE w : w \in ws }

\* instance.calories_burned == 0: a str is never equal to 0
CaloriesIsZero(inst) ==
    IF "calories_burned" \in Strings(inst) THEN FALSE ELSE inst.calories_burned = 0

\* instance.duration * rate raises TypeError when duration is a str
auto_calculate_calories_raises(inst, created) ==
    (CaloriesIsZero(inst) \/ created) /\ "duration" \in Strings(inst)

\* the receiver storing its estimate whenever it computes one
auto_calculate_calories_always(ws, inst, created) ==
    IF (CaloriesIsZero(inst) \/ created) /\ ~auto_calculate_calories_raises(inst, created)
    THEN UpdateCalories(ws, inst.pk, inst.duration * calorie_rates(inst.workout_type))
    ELSE ws

\* post_save receiver of Workout.  The instance keeps its own value; only the
\* row is updated.
auto_calculate_calories(ws, inst, created) ==
    IF (CaloriesIsZero(inst) \/ created) /\ ~auto_calculate_calories_raises(inst, created)
    THEN LET estimated_calories == inst.duration * calorie_rates(inst.workout_type)
         IN  IF CaloriesIsZero(inst)
             THEN UpdateCalories(ws, inst.pk, estimated_calories)
             ELSE ws
    ELSE ws

\* post_save receiver of Workout: instance.calories_burned > 0 raises
\* TypeError when calories_burned is a str
check_calories_milestones_raises(inst, created) ==
    created /\ "calories_burned" \in Strings(inst)

\* Model.save() of a Workout instance: write every field of the instance to
\* its row (insert when there is none), then the post_save receivers in the
\* order they are connected.  Nothing is written when a value does not
\* convert; the row stays written when a receiver raises.  The milestone
\* receivers write nothing.
WorkoutSave(ws, inst, created) ==
    IF PrepRaises(inst)
    THEN ws
    ELSE auto_calculate_calories({w \in ws : w.pk # inst.pk} \cup {Row(inst)},
                                 inst, created)

\* how that save ends: the ValueError of a conversion is what the import
\* functions catch and raise again as ValidationError
SaveStatus(inst, created) ==
    IF PrepRaises(inst) THEN "ValidationError"
    ELSE IF auto_calculate_calories_raises(inst, created)
            \/ check_calories_milestones_raises(inst, created)
    THEN "TypeError"
    ELSE "ok"

\* the receiver writing the parent row without sending post_save
update_workout_on_exercise_change_quiet(ws, winst) ==
    {w \in ws : w.pk # winst.pk} \cup {Row(winst)}

\* post_save receiver of Exercise: instance.workout.save()
update_workout_on_exercise_change(ws, winst) ==
    WorkoutSave(ws, winst, FALSE)

(* --------------------------- store queries --------------------------- *)
MaxPk(rows) == IF rows = {} THEN 0 ELSE CHOOSE n \in {r.pk : r \in rows} :
                                          \A r \in rows : r.pk <= n

\* the lookup without its user filter
FilterFirst_anyuser(ws, user, name, date) ==
    LET m == {w \in ws : w.name = name /\ w.date = date}
    IN  IF m = {} THEN NoWorkout ELSE CHOOSE w \in m : w.pk = MaxPk(m)

\* Workout.objects.filter(user=, name=, date=).first() under Meta.ordering
\* ['-date', '-created_at']: of the matches the one created last
FilterFirst(ws, user, name, date) ==
    LET m == {w \in ws : w.user = user /\ w.name = name /\ w.date = date}
    IN  IF m = {} THEN NoWorkout ELSE CHOOSE w \in m : w.pk = MaxPk(m)

\* the running state of one import call
ImportState(ws, es) ==
    [ws |-> ws, es |-> es, imported |-> 0, exercises |-> 0, status |-> "ok",
     where |-> 0, created |-> <<>>, current_workout |-> NoWorkout]

\* the create without the increment of imported_workouts
CreateWorkout_uncounted(st, user, f) ==
    LET inst == Workout(MaxPk(st.ws) + 1, user, f)
    IN  IF SaveStatus(inst, TRUE) = "ok"
        THEN [st EXCEPT !.ws = WorkoutSave(st.ws, inst, TRUE),
                        !.created = Append(@, inst),
                        !.current_workout = inst]
        ELSE [st EXCEPT !.ws = WorkoutSave(st.ws, inst, TRUE),
                        !.status = SaveStatus(inst, TRUE)]

\* Workout.objects.create(user=user, **fields), imported_workouts += 1
CreateWorkout(st, user, f) ==
    LET inst == Workout(MaxPk(st.ws) + 1, user, f)
    IN  IF SaveStatus(inst, TRUE) = "ok"
        THEN [st EXCEPT !.ws = WorkoutSave(st.ws, inst, TRUE),
                        !.imported = @ + 1,
                        !.created = Append(@, inst),
                        !.current_workout = inst]
        ELSE [st EXCEPT !.ws = WorkoutSave(st.ws, inst, TRUE),
                        !.status = SaveStatus(inst, TRUE)]

\* the overwrite branch: setattr every field, existing_workout.save()
OverwriteWorkout(st, existing, f) ==
    LET inst == Workout(existing.pk, existing.user, f)
    IN  [st EXCEPT !.ws = WorkoutSave(st.ws, inst, FALSE),
                   !.status = SaveStatus(inst, FALSE),
                   !.current_workout = inst]

\* workout.exercises.all().delete()
DeleteExercises(st, wpk) ==
    IF st.status # "ok" THEN st
    ELSE [st EXCEPT !.es = {e \in st.es : e.workout # wpk}]

\* Exercise.objects.create(workout=winst, **fields), imported_exercises += 1
CreateExercise(st, winst, f) ==
    IF SaveStatus(winst, FALSE) = "ok"
    THEN [st EXCEPT !.es = @ \cup {Exercise(MaxPk(st.es) + 1, winst.pk, f)},
                    !.ws = update_workout_on_exercise_change(st.ws, winst),
                    !.exercises = @ + 1]
    ELSE [st EXCEPT !.es = @ \cup {Exercise(MaxPk(st.es) + 1, winst.pk, f)},
                    !.ws = update_workout_on_exercise_change(st.ws, winst),
                    !.status = SaveStatus(winst, FALSE)]

Raise(st, kind, where) == [st EXCEPT !.status = kind, !.where = where]

(* ------------------------------- CSV --------------------------------- *)

\* row.get(k, default)
Get(row, k, default) == IF k \in DOMAIN row THEN row[k] ELSE default

\* a lookup that finds no Workout
Existing_none(ws, user, name, date, overwrite_existing) == NoWorkout

\* the lookup made only when overwriting
Existing_when_overwriting(ws, user, name, date, overwrite_existing) ==
    IF overwrite_existing THEN FilterFirst(ws, user, name, date) ELSE NoWorkout

\* existing_workout of an import: looked up only when not overwriting
Existing(ws, user, name, date, overwrite_existing) ==
    IF ~overwrite_existing THEN FilterFirst(ws, user, name, date) ELSE NoWorkout

\* the exercise columns of a row parse
CsvExerciseParses(row) ==
    /\ IsInt(Get(row, "sets", "1"))
    /\ IsInt(Get(row, "reps", "1"))
    /\ IsFloat(Get(row, "weight", "0"))
    /\ IsInt(Get(row, "rest_time", "60"))

CsvExerciseData(row) ==
    [exercise_name |-> row["exercise_name"],
     category |-> Get(row, "category", "other"),
     sets |-> int(Get(row, "sets", "1")),
     reps |-> int(Get(row, "reps", "1")),
     weight |-> float(Get(row, "weight", "0")),
     rest_time |-> int(Get(row, "rest_time", "60")),
     notes |-> Get(row, "exercise_notes", "")]

CsvWorkoutData(row) ==
    [name |-> row["name"],
     workout_type |-> Get(row, "workout_type", "other"),
     duration |-> int(row["duration"]),
     calories_burned |-> int(Get(row, "calories_burned", "0")),
     notes |-> Get(row, "notes", ""),
     date |-> strptime(row["date"])]

\* the exercise part of one row, after its workout is resolved
CsvRowExercise(st, row, n) ==
    IF st.status # "ok" THEN st
    ELSE IF "exercise_name" \in DOMAIN row /\ row["exercise_name"] # ""
    THEN IF CsvExerciseParses(row)
         THEN CreateExercise(st, st.current_workout, CsvExerciseData(row))
         ELSE Raise(st, "ValidationError", n)
    ELSE st

\* the body of the loop over csv_reader, for row n
CsvRow(st, user, row, overwrite_existing, n) ==
    IF ~("date" \in DOMAIN row /\ IsDate(row["date"]) /\ "name" \in DOMAIN row)
    THEN Raise(st, "ValidationError", n)
    ELSE
    LET existing_workout ==
            Existing(st.ws, user, row["name"], strptime(row["date"]), overwrite_existing)
    IN  IF existing_workout.pk # 0 /\ ~overwrite_existing
        THEN st
        ELSE IF ~("duration" \in DOMAIN row /\ IsInt(row["duration"])
                  /\ IsInt(Get(row, "calories_burned", "0")))
        THEN Raise(st, "ValidationError", n)
        ELSE IF existing_workout.pk # 0 /\ overwrite_existing
        THEN CsvRowExercise(OverwriteWorkout(st, existing_workout, CsvWorkoutData(row)),
                            row, n)
        ELSE CsvRowExercise(CreateWorkout(st, user, CsvWorkoutData(row)), row, n)

RECURSIVE CsvLoop(_, _, _, _, _)
CsvLoop(st, user, rows, overwrite_existing, n) ==
    IF n > Len(rows) \/ st.status # "ok"
    THEN st
    ELSE CsvLoop(CsvRow(st, user, rows[n], overwrite_existing, n),
                 user, rows, overwrite_existing, n + 1)

import_csv_data(ws, es, user, file_content, overwrite_existing) ==
    CsvLoop(ImportState(ws, es), user, file_content, overwrite_existing, 1)



(* ------------------------------- JSON -------------------------------- *)
\* A parsed document is a record; an object of the document is a record with
\* the keys it carries.  A workout object lists under "strings" those of its
\* keys duration and calories_burned whose value is a JSON string; the
\* values of the exercise objects are numbers.
JsonExerciseData(ex) ==
    [exercise_name |-> ex["exercise_name"],
     category |-> Get(ex, "category", "other"),
     sets |-> Get(ex, "sets", 1),
     reps |-> Get(ex, "reps", 1),
     weight |-> Get(ex, "weight", 0),
     rest_time |-> Get(ex, "rest_time", 60),
     notes |-> Get(ex, "notes", "")]

JsonWorkoutFields(workout_data) ==
    [name |-> workout_data["name"],
     workout_type |-> Get(workout_data, "workout_type", "other"),
     duration |-> workout_data["duration"],
     calories_burned |-> Get(workout_data, "calories_burned", 0),
     notes |-> Get(workout_data, "notes", ""),
     date |-> strptime(workout_data["date"]),
     strings |-> Strings(workout_data)]

\* the loop over exercises_data of entry n
RECURSIVE JsonExercises(_, _, _, _)
JsonExercises(st, exercises_data, i, n) ==
    IF i > Len(exercises_data) \/ st.status # "ok"
    THEN st
    ELSE JsonExercises(
             IF "exercise_name" \in DOMAIN exercises_data[i]
             THEN CreateExercise(st, st.current_workout,
                                 JsonExerciseData(exercises_data[i]))
             ELSE Raise(st, "ValidationError", n),
             exercises_data, i + 1, n)

\* the body of the loop over workouts_data, for entry n
JsonEntry(st, user, workout_data, overwrite_existing, n) ==
    IF ~("date" \in DOMAIN workout_data /\ IsDate(workout_data["date"])
         /\ "name" \in DOMAIN workout_data)
    THEN Raise(st, "ValidationError", n)
    ELSE
    LET existing_workout ==
            Existing(st.ws, user, workout_data["name"],
                     strptime(workout_data["date"]), overwrite_existing)
        exercises_data == Get(workout_data, "exercises", <<>>)
    IN  IF existing_workout.pk # 0 /\ ~overwrite_existing
        THEN st
        ELSE IF "duration" \notin DOMAIN workout_data
        THEN Raise(st, "ValidationError", n)
        ELSE IF existing_workout.pk # 0 /\ overwrite_existing
        THEN JsonExercises(
                 DeleteExercises(
                     OverwriteWorkout(st, existing_workout,
                                      JsonWorkoutFields(workout_data)),
                     existing_workout.pk),
                 exercises_data, 1, n)
        ELSE JsonExercises(CreateWorkout(st, user, JsonWorkoutFields(workout_data)),
                           exercises_data, 1, n)

RECURSIVE JsonLoop(_, _, _, _, _)
JsonLoop(st, user, workouts_data, overwrite_existing, n) ==
    IF n > Len(workouts_data) \/ st.status # "ok"
    THEN st
    ELSE JsonLoop(JsonEntry(st, user, workouts_data[n], overwrite_existing, n),
                  user, workouts_data, overwrite_existing, n + 1)

\* file_content that json.loads rejects
JsonUndecodable == [undecodable |-> TRUE]

import_json_data(ws, es, user, data, overwrite_existing) ==
    IF data = JsonUndecodable
    THEN Raise(ImportState(ws, es), "ValidationError", 0)
    ELSE JsonLoop(ImportState(ws, es), user, Get(data, "workouts", <<>>),
                  overwrite_existing, 1)

(* ------------------------------- text -------------------------------- *)
\* A line is its marker and the parts that line[len(marker):].split('|'),
\* each stripped, gives.  The marker is "WORKOUT:", "EXERCISE:", "#" for a
\* comment, "" for a blank line, or "other" for any other text.
Line(marker, parts) == [marker |-> marker, parts |-> parts]

\* file_content.strip().split('\n'): blank lines at both ends are gone
RECURSIVE LStrip(_)
LStrip(lines) ==
    IF lines # <<>> /\ Head(lines).marker = "" THEN LStrip(Tail(lines)) ELSE lines
RECURSIVE RStrip(_)
RStrip(lines) ==
    IF lines # <<>> /\ lines[Len(lines)].marker = ""
    THEN RStrip(SubSeq(lines, 1, Len(lines) - 1))
    ELSE lines
StripSplit(file_content) == RStrip(LStrip(file_content))

TextWorkoutParses(parts) ==
    /\ IsDate(parts[3])
    /\ IsInt(parts[4])
    /\ (Len(parts) > 4 => IsInt(parts[5]))

\* the calories read one part too far to the right
TextWorkoutData_shifted(parts) ==
    [name |-> parts[1],
     workout_type |-> parts[2],
     duration |-> int(parts[4]),
     calories_burned |-> IF Len(parts) > 5 THEN int(parts[5]) ELSE 0,
     notes |-> IF Len(parts) > 5 THEN parts[6] ELSE "",
     date |-> strptime(parts[3])]

TextWorkoutData(parts) ==
    [name |-> parts[1],
     workout_type |-> parts[2],
     duration |-> int(parts[4]),
     calories_burned |-> IF Len(parts) > 4 THEN int(parts[5]) ELSE 0,
     notes |-> IF Len(parts) > 5 THEN parts[6] ELSE "",
     date |-> strptime(parts[3])]

TextExerciseParses(parts) ==
    /\ IsInt(parts[3])
    /\ IsInt(parts[4])
    /\ (Len(parts) > 4 => IsFloat(parts[5]))
    /\ (Len(parts) > 5 => IsInt(parts[6]))

TextExerciseData(parts) ==
    [exercise_name |-> parts[1],
     category |-> parts[2],
     sets |-> int(parts[3]),
     reps |-> int(parts[4]),
     weight |-> IF Len(parts) > 4 THEN float(parts[5]) ELSE 0,
     rest_time |-> IF Len(parts) > 5 THEN int(parts[6]) ELSE 60,
     notes |-> IF Len(parts) > 6 THEN parts[7] ELSE ""]

\* the WORKOUT: branch skipping a matched line as the CSV loop does, without
\* making the Workout it found the current one
TextWorkoutLine_skips(st, user, parts, overwrite_existing, line_num) ==
    IF Len(parts) < 4 \/ ~TextWorkoutParses(parts)
    THEN Raise(st, "ValidationError", line_num)
    ELSE
    LET f == TextWorkoutData(parts)
        existing_workout == Existing(st.ws, user, f.name, f.date, overwrite_existing)
    IN  IF existing_workout.pk # 0 /\ ~overwrite_existing
        THEN st
        ELSE CreateWorkout(st, user, f)

\* the WORKOUT: branch of the loop
TextWorkoutLine(st, user, parts, overwrite_existing, line_num) ==
    IF Len(parts) < 4 \/ ~TextWorkoutParses(parts)
    THEN Raise(st, "ValidationError", line_num)
    ELSE
    LET f == TextWorkoutData(parts)
        existing_workout == Existing(st.ws, user, f.name, f.date, overwrite_existing)
    IN  IF existing_workout.pk # 0 /\ ~overwrite_existing
        THEN [st EXCEPT !.current_workout = existing_workout]
        ELSE IF existing_workout.pk # 0 /\ overwrite_existing
        THEN DeleteExercises(OverwriteWorkout(st, existing_workout, f),
                             existing_workout.pk)
        ELSE CreateWorkout(st, user, f)

\* the EXERCISE: branch attaching to the first Workout the call created
TextExerciseLine_first_created(st, parts, line_num) ==
    IF st.current_workout.pk = 0
    THEN Raise(st, "ValidationError", line_num)
    ELSE IF Len(parts) < 4 \/ ~TextExerciseParses(parts)
    THEN Raise(st, "ValidationError", line_num)
    ELSE CreateExercise(st,
                        IF st.created # <<>> THEN st.created[1] ELSE st.current_workout,
                        TextExerciseData(parts))

\* the EXERCISE: branch of the loop
TextExerciseLine(st, parts, line_num) ==
    IF st.current_workout.pk = 0
    THEN Raise(st, "ValidationError", line_num)
    ELSE IF Len(parts) < 4 \/ ~TextExerciseParses(parts)
    THEN Raise(st, "ValidationError", line_num)
    ELSE CreateExercise(st, st.current_workout, TextExerciseData(parts))

\* the body of the loop over the lines; a line with neither marker falls
\* through both branches
TextLine(st, user, line, overwrite_existing, line_num) ==
    IF line.marker = "" \/ line.marker = "#"
    THEN st
    ELSE IF line.marker = "WORKOUT:"
    THEN TextWorkoutLine(st, user, line.parts, overwrite_existing, line_num)
    ELSE IF line.marker = "EXERCISE:"
    THEN TextExerciseLine(st, line.parts, line_num)
    ELSE st

RECURSIVE TextLoop(_, _, _, _, _)
TextLoop(st, user, lines, overwrite_existing, line_num) ==
    IF line_num > Len(lines) \/ st.status # "ok"
    THEN st
    ELSE TextLoop(TextLine(st, user, lines[line_num], overwrite_existing, line_num),
                  user, lines, overwrite_existing, line_num + 1)

\* current_workout starts as None; in CSV and JSON it is the loop's `workout`
import_text_data(ws, es, user, file_content, overwrite_existing) ==
    TextLoop(ImportState(ws, es), user, StripSplit(file_content),
             overwrite_existing, 1)


(* ------------------------------ export ------------------------------- *)
\* request.user.workouts.all() under Meta.ordering ['-date', '-created_at']
RECURSIVE OrderWorkouts(_)
OrderWorkouts(S) ==
    IF S = {} THEN <<>>
    ELSE LET w == CHOOSE x \in S : \A y \in S :
                      y.date < x.date \/ (y.date = x.date /\ y.pk <= x.pk)
         IN  <<w>> \o OrderWorkouts(S \ {w})

UserWorkouts(ws, user) == OrderWorkouts({w \in ws : w.user = user})

\* workout.exercises.all() under Meta.ordering ['created_at']
RECURSIVE OrderExercises(_)
OrderExercises(S) ==
    IF S = {} THEN <<>>
    ELSE LET e == CHOOSE x \in S : \A y \in S : x.pk <= y.pk
         IN  <<e>> \o OrderExercises(S \ {e})

\* the exercises of a workout, the one created last first
WorkoutExercises_newest_first(es, w) ==
    LET exs == OrderExercises({e \in es : e.workout = w.pk})
    IN  [i \in 1..Len(exs) |-> exs[Len(exs) + 1 - i]]

WorkoutExercises(es, w) == OrderExercises({e \in es : e.workout = w.pk})

RECURSIVE Flatten(_)
Flatten(ss) == IF ss = <<>> THEN <<>> ELSE Head(ss) \o Flatten(Tail(ss))

\* the rows of a workout, none for a workout without exercises
CsvExportRows_no_empty_row(es, workout) ==
    LET exs == WorkoutExercises(es, workout)
    IN  [i \in 1..Len(exs) |->
            [date |-> strftime(workout.date), name |-> workout.name,
             workout_type |-> workout.workout_type,
             duration |-> str(workout.duration),
             calories_burned |-> str(workout.calories_burned),
             notes |-> workout.notes,
             exercise_name |-> exs[i].exercise_name,
             category |-> exs[i].category,
             sets |-> str(exs[i].sets),
             reps |-> str(exs[i].reps),
             weight |-> strfloat(exs[i].weight),
             rest_time |-> str(exs[i].rest_time),
             exercise_notes |-> exs[i].notes]]

\* the rows export_csv_data writes for one workout
CsvExportRows(es, workout) ==
    LET exs == WorkoutExercises(es, workout)
        wcols == [date |-> strftime(workout.date), name |-> workout.name,
                  workout_type |-> workout.workout_type,
                  duration |-> str(workout.duration),
                  calories_burned |-> str(workout.calories_burned),
                  notes |-> workout.notes]
    IN  IF exs # <<>>
        THEN [i \in 1..Len(exs) |->
                 [k \in {"exercise_name", "category", "sets", "reps", "weight",
                         "rest_time", "exercise_notes"} \cup DOMAIN wcols |->
                     CASE k = "exercise_name" -> exs[i].exercise_name
                       [] k = "category" -> exs[i].category
                       [] k = "sets" -> str(exs[i].sets)
                       [] k = "reps" -> str(exs[i].reps)
                       [] k = "weight" -> strfloat(exs[i].weight)
                       [] k = "rest_time" -> str(exs[i].rest_time)
                       [] k = "exercise_notes" -> exs[i].notes
                       [] OTHER -> wcols[k]]]
        ELSE << [k \in {"exercise_name", "category", "sets", "reps", "weight",
                        "rest_time", "exercise_notes"} \cup DOMAIN wcols |->
                    IF k \in DOMAIN wcols THEN wcols[k] ELSE ""] >>

\* the data rows of the response, as csv.DictReader gives them back
export_csv_data(ws, es, user) ==
    LET wl == UserWorkouts(ws, user)
    IN  Flatten([i \in 1..Len(wl) |-> CsvExportRows(es, wl[i])])

export_json_data(ws, es, user) ==
    LET wl == UserWorkouts(ws, user)
    IN  [workouts |->
            [i \in 1..Len(wl) |->
                [name |-> wl[i].name,
                 date |-> strftime(wl[i].date),
                 workout_type |-> wl[i].workout_type,
                 duration |-> wl[i].duration,
                 calories_burned |-> wl[i].calories_burned,
                 notes |-> wl[i].notes,
                 exercises |->
                    LET exs == WorkoutExercises(es, wl[i])
                    IN  [j \in 1..Len(exs) |->
                            [exercise_name |-> exs[j].exercise_name,
                             category |-> exs[j].category,
                             sets |-> exs[j].sets,
                             reps |-> exs[j].reps,
                             weight |-> exs[j].weight,
                             rest_time |-> exs[j].rest_time,
                             notes |-> exs[j].notes]]]]]

\* what split('|') and strip make of a field written between " | ": a field
\* that itself holds a pipe comes back as two parts
PipeSplit(s) == IF s = "Push | Pull" THEN <<"Push", "Pull">> ELSE <<s>>

TextExportWorkout(es, workout) ==
    LET exs == WorkoutExercises(es, workout)
    IN  << Line("WORKOUT:",
                PipeSplit(workout.name) \o PipeSplit(workout.workout_type)
                \o <<strftime(workout.date), str(workout.duration),
                     str(workout.calories_burned)>>
                \o (IF workout.notes # "" THEN PipeSplit(workout.notes) ELSE <<>>)) >>
        \o [j \in 1..Len(exs) |->
               Line("EXERCISE:",
                    PipeSplit(exs[j].exercise_name) \o PipeSplit(exs[j].category)
                    \o <<str(exs[j].sets), str(exs[j].reps), strfloat(exs[j].weight),
                         str(exs[j].rest_time)>>
                    \o (IF exs[j].notes # "" THEN PipeSplit(exs[j].notes) ELSE <<>>))]
        \o << Line("", <<>>) >>

export_text_data(ws, es, user) ==
    LET wl == UserWorkouts(ws, user)
    IN  << Line("#", <<>>), Line("#", <<>>), Line("#", <<>>), Line("", <<>>) >>
        \o Flatten([i \in 1..Len(wl) |-> TextExportWorkout(es, wl[i])])

(* ------------------------------ inputs ------------------------------- *)
Users == {"u1"}

CsvLine(name, type, duration, calories, exname, sets) ==
    [date |-> "2024-01-01", name |-> name, workout_type |-> type,
     duration |-> duration, calories_burned |-> calories, notes |-> "",
     exercise_name |-> exname,
     category |-> IF exname = "" THEN "" ELSE "cardio",
     sets |-> sets,
     reps |-> IF exname = "" THEN "" ELSE "1",
     weight |-> IF exname = "" THEN "" ELSE "0",
     rest_time |-> IF exname = "" THEN "" ELSE "0",
     exercise_notes |-> ""]

\* a workout left to the estimate with an exercise; the same workout with
\* its calories given and an exercise whose sets do not parse; a second
\* workout without exercises
CsvRows ==
    { CsvLine("Morning Run", "cardio", "30", "0", "Running", "1"),
      CsvLine("Morning Run", "cardio", "30", "300", "Running", "x"),
      CsvLine("Leg Day", "strength", "45", "0", "", "") }

JsonExercise ==
    [exercise_name |-> "Running", category |-> "cardio", sets |-> 1, reps |-> 1,
     weight |-> 0, rest_time |-> 0]

\* the same three records; the second one spells its duration "30", which
\* is written to the row as 30 and makes the calorie receiver raise
JsonEntries ==
    { [date |-> "2024-01-01", name |-> "Morning Run", workout_type |-> "cardio",
       duration |-> 30, calories_burned |-> 0, exercises |-> <<JsonExercise>>],
      [date |-> "2024-01-01", name |-> "Morning Run", workout_type |-> "cardio",
       duration |-> "30", calories_burned |-> 0, strings |-> {"duration"}],
      [date |-> "2024-01-01", name |-> "Leg Day", workout_type |-> "strength",
       duration |-> 45] }

TextLines ==
    { Line("WORKOUT:", <<"Morning Run", "cardio", "2024-01-01", "30", "300">>),
      Line("WORKOUT:", <<"Leg Day", "strength", "2024-01-01", "45">>),
      Line("EXERCISE:", <<"Running", "cardio", "1", "1", "0", "0">>) }

SeqsUpTo(S, n) == UNION { [1..k -> S] : k \in 1..n }

CsvPayloads == SeqsUpTo(CsvRows, MaxRows)
JsonPayloads == { [workouts |-> p] : p \in SeqsUpTo(JsonEntries, MaxRows) }
TextPayloads == SeqsUpTo(TextLines, MaxRows)

\* cleaned_data of a valid WorkoutForm / ExerciseForm
WorkoutForms ==
    { [name |-> "Leg Day", workout_type |-> "strength", date |-> 1, duration |-> 45,
       calories_burned |-> 0, notes |-> ""] }
ExerciseForms ==
    { [exercise_name |-> "Running", category |-> "cardio", sets |-> 1, reps |-> 1,
       weight |-> 0, rest_time |-> 0, notes |-> ""] }

(* ------------------------------ actions ------------------------------ *)
ImportOps == {"import_csv", "import_json", "import_text"}
ExportOf(op) ==
    CASE op = "import_csv" -> "export_csv"
      [] op = "import_json" -> "export_json"
      [] op = "import_text" -> "export_text"
      [] OTHER -> "none"

Idle ==
    [op |-> "idle", user |-> None, overwrite |-> FALSE, payload |-> <<>>,
     source |-> "upload", status |-> "ok", where |-> 0, imported |-> 0,
     exercises |-> 0, created |-> <<>>, repeat |-> FALSE, first_status |-> "ok"]

SameCall(op, user, overwrite, payload) ==
    /\ last.op = op /\ last.user = user /\ last.overwrite = overwrite
    /\ last.payload = payload

\* One request runs to completion before the next begins.  A new upload
\* follows a completed request; the same call may be issued again at once;
\* the file an export returned may be uploaded at once.
MayImport(op, user, overwrite, payload) ==
    \/ last.op = "idle"
    \/ SameCall(op, user, overwrite, payload)
    \/ last.op = ExportOf(op) /\ last.payload = payload

Call(op, user, overwrite, payload, st) ==
    [op |-> op, user |-> user, overwrite |-> overwrite, payload |-> payload,
     source |-> IF last.op = ExportOf(op) THEN last.user ELSE "upload",
     status |-> st.status, where |-> st.where,
     imported |-> st.imported, exercises |-> st.exercises, created |-> st.created,
     repeat |-> SameCall(op, user, overwrite, payload),
     first_status |-> IF SameCall(op, user, overwrite, payload)
                      THEN last.status ELSE "ok"]

Commit(op, user, overwrite, payload, st) ==
    /\ Cardinality(st.ws) <= MaxWorkouts
    /\ Cardinality(st.es) <= MaxExercises
    /\ workouts' = st.ws
    /\ exercises' = st.es
    /\ before' = [ws |-> workouts, es |-> exercises]
    /\ last' = Call(op, user, overwrite, payload, st)
    /\ UNCHANGED <<auth_users, profiles>>

\* import_data with file_type 'csv'
ImportCsv(user, payload, overwrite) ==
    /\ MayImport("import_csv", user, overwrite, payload)
    /\ Commit("import_csv", user, overwrite, payload,
              import_csv_data(workouts, exercises, user, payload, overwrite))

\* import_data with file_type 'json'
ImportJson(user, payload, overwrite) ==
    /\ MayImport("import_json", user, overwrite, payload)
    /\ Commit("import_json", user, overwrite, payload,
              import_json_data(workouts, exercises, user, payload, overwrite))

\* import_data with file_type 'txt'
ImportText(user, payload, overwrite) ==
    /\ MayImport("import_text", user, overwrite, payload)
    /\ Commit("import_text", user, overwrite, payload,
              import_text_data(workouts, exercises, user, payload, overwrite))

\* export_data: the response body is kept as the call's payload
Export(user, op, body) ==
    /\ last.op = "idle"
    /\ UNCHANGED <<workouts, exercises, auth_users, profiles>>
    /\ before' = [ws |-> workouts, es |-> exercises]
    /\ last' = [Idle EXCEPT !.op = op, !.user = user, !.payload = body]

ExportCsv(user) == Export(user, "export_csv", export_csv_data(workouts, exercises, user))
ExportJson(user) == Export(user, "export_json", export_json_data(workouts, exercises, user))
ExportText(user) == Export(user, "export_text", export_text_data(workouts, exercises, user))

\* request.GET.get('format', 'csv') with a misspelt default
FormatTag_default_json(format) == IF format = None THEN "json" ELSE format

\* request.GET.get('format', 'csv'): None stands for a request without the
\* parameter
FormatTag(format) == IF format = None THEN "csv" ELSE format

\* export_data: the response for a format tag, a file or the redirect that
\* follows messages.error
export_data(ws, es, user, format) ==
    LET file_type == FormatTag(format)
    IN  CASE file_type = "csv" ->
               [file |-> TRUE, content_type |-> "text/csv",
                body |-> export_csv_data(ws, es, user)]
          [] file_type = "json" ->
               [file |-> TRUE, content_type |-> "application/json",
                body |-> export_json_data(ws, es, user)]
          [] file_type = "txt" ->
               [file |-> TRUE, content_type |-> "text/plain",
                body |-> export_text_data(ws, es, user)]
          [] OTHER ->
               [file |-> FALSE, content_type |-> "redirect", body |-> <<>>]

\* one GET of the export URL
ExportData(user, format) ==
    /\ last.op = "idle"
    /\ UNCHANGED <<workouts, exercises, auth_users, profiles>>
    /\ before' = [ws |-> workouts, es |-> exercises]
    /\ last' = [Idle EXCEPT
                  !.op = "export_data", !.user = user,
                  !.status = IF export_data(workouts, exercises, user, format).file
                             THEN "ok" ELSE "error",
                  !.payload = [format |-> format,
                               response |-> export_data(workouts, exercises, user, format)]]

\* workout_create: a valid form, workout.user = request.user, workout.save()
workout_create(user, form) ==
    /\ last.op = "idle"
    /\ Commit("workout_create", user, FALSE, form,
              CreateWorkout(ImportState(workouts, exercises), user, form))

\* exercise_create: the user's workout by pk, a valid form, exercise.save()
exercise_create(user, workout, form) ==
    /\ last.op = "idle"
    /\ workout \in workouts /\ workout.user = user
    /\ Commit("exercise_create", user, FALSE, form,
              CreateExercise(ImportState(workouts, exercises), workout, form))

\* the response is sent: the request is over
Respond ==
    /\ last.op # "idle"
    /\ UNCHANGED <<workouts, exercises, auth_users, profiles>>
    /\ before' = [ws |-> workouts, es |-> exercises]
    /\ last' = Idle

Init ==
    /\ workouts = {}
    /\ exercises = {}
    /\ before = [ws |-> {}, es |-> {}]
    /\ last = Idle
    /\ auth_users = {}
    /\ profiles = {}

\* the payloads an import may be given: the uploads of the domain and the
\* body of the export just returned
Uploads(domain, op) ==
    domain \cup (IF last.op = ExportOf(op) THEN {last.payload} ELSE {})

Next ==
    \/ \E user \in Users, overwrite \in BOOLEAN :
          \/ \E payload \in Uploads(CsvPayloads, "import_csv") :
                ImportCsv(user, payload, overwrite)
          \/ \E payload \in Uploads(JsonPayloads, "import_json") :
                ImportJson(user, payload, overwrite)
          \/ \E payload \in Uploads(TextPayloads, "import_text") :
                ImportText(user, payload, overwrite)
    \/ \E user \in Users :
          \/ ExportCsv(user)
          \/ ExportJson(user)
          \/ ExportText(user)
          \/ \E form \in WorkoutForms : workout_create(user, form)
          \/ \E workout \in workouts, form \in ExerciseForms :
                exercise_create(user, workout, form)
    \/ Respond

Spec == Init /\ [][Next]_vars

(* --------------------- out-of-range import payloads ------------------- *)
\* records that parse and carry a value the validators of models.py reject
CsvLongDuration == CsvLine("Leg Day", "strength", "700", "300", "", "")
CsvHighRepsWeighted ==
    [CsvLine("Morning Run", "cardio", "30", "300", "Running", "1")
        EXCEPT !.reps = "150", !.weight = "10.0"]
CsvHighRepsBodyweight ==
    [CsvLine("Morning Run", "cardio", "30", "300", "Running", "1")
        EXCEPT !.reps = "150", !.weight = "0"]
RangeCsvRows == {CsvLongDuration, CsvHighRepsWeighted, CsvHighRepsBodyweight}

RangeJsonEntries ==
    { [date |-> "2024-01-01", name |-> "Leg Day", workout_type |-> "zumba",
       duration |-> 45, calories_burned |-> 300],
      [date |-> "2024-01-01", name |-> "Morning Run", workout_type |-> "cardio",
       duration |-> 30, calories_burned |-> 300,
       exercises |-> <<[JsonExercise EXCEPT !.reps = 150, !.weight = 10]>>] }

RangeTextLines ==
    { Line("WORKOUT:", <<"Morning Run", "cardio", "2024-01-01", "30", "6000">>),
      Line("EXERCISE:", <<"Running", "cardio", "60", "150", "0", "700">>) }

NextRange ==
    \/ \E user \in Users, overwrite \in BOOLEAN :
          \/ \E payload \in SeqsUpTo(RangeCsvRows, MaxRows) :
                ImportCsv(user, payload, overwrite)
          \/ \E payload \in { [workouts |-> p] : p \in SeqsUpTo(RangeJsonEntries, MaxRows) } :
                ImportJson(user, payload, overwrite)
          \/ \E payload \in SeqsUpTo(RangeTextLines, MaxRows) :
                ImportText(user, payload, overwrite)
    \/ Respond

SpecRange == Init /\ [][NextRange]_vars

(* ----------------------------- two users ------------------------------ *)
\* two accounts that upload the same small files and export
TwoUsers == {"u1", "u2"}

UsersCsvRows == { CsvLine("Leg Day", "strength", "45", "0", "", "") }
UsersJsonEntries ==
    { [date |-> "2024-01-01", name |-> "Morning Run", workout_type |-> "cardio",
       duration |-> 30, calories_burned |-> 0, exercises |-> <<JsonExercise>>] }
UsersTextLines ==
    { Line("WORKOUT:", <<"Morning Run", "cardio", "2024-01-01", "30", "300">>),
      Line("EXERCISE:", <<"Running", "cardio", "1", "1", "0", "0">>) }

NextUsers ==
    \/ \E user \in TwoUsers, overwrite \in BOOLEAN :
          \/ \E payload \in SeqsUpTo(UsersCsvRows, MaxRows) :
                ImportCsv(user, payload, overwrite)
          \/ \E payload \in { [workouts |-> p] : p \in SeqsUpTo(UsersJsonEntries, MaxRows) } :
                ImportJson(user, payload, overwrite)
          \/ \E payload \in SeqsUpTo(UsersTextLines, MaxRows) :
                ImportText(user, payload, overwrite)
    \/ \E user \in TwoUsers :
          \/ ExportCsv(user)
          \/ ExportJson(user)
          \/ ExportText(user)
    \/ Respond

SpecUsers == Init /\ [][NextUsers]_vars

(* ------------------------- dates and exports ------------------------- *)
\* JSON uploads of workouts on two dates, two of them on the same date, one
\* with two exercises that differ in name
OrderJsonEntries ==
    { [date |-> "2024-01-01", name |-> "Morning Run", workout_type |-> "cardio",
       duration |-> 30, calories_burned |-> 300,
       exercises |-> <<JsonExercise,
                       [exercise_name |-> "Squats", category |-> "legs", sets |-> 3,
                        reps |-> 1, weight |-> 0, rest_time |-> 60]>>],
      [date |-> "2024-01-01", name |-> "Leg Day", workout_type |-> "strength",
       duration |-> 45],
      [date |-> "2024-01-02", name |-> "Evening Walk", workout_type |-> "cardio",
       duration |-> 30, calories_burned |-> 300] }

NextOrder ==
    \/ \E user \in Users :
          \/ \E payload \in { [workouts |-> p] : p \in SeqsUpTo(OrderJsonEntries, MaxRows) } :
                ImportJson(user, payload, FALSE)
          \/ ExportCsv(user)
          \/ ExportJson(user)
          \/ ExportText(user)
    \/ Respond

SpecOrder == Init /\ [][NextOrder]_vars

(* ------------------------ malformed documents ------------------------ *)
\* a well-formed entry, an entry without its name, and an entry whose
\* duration is a string
JsonWellFormed ==
    [date |-> "2024-01-01", name |-> "Leg Day", workout_type |-> "strength",
     duration |-> 45, calories_burned |-> 270, exercises |-> <<JsonExercise>>]
JsonMissingName ==
    [date |-> "2024-01-01", workout_type |-> "cardio", duration |-> 30,
     calories_burned |-> 300]
JsonStringDuration ==
    [date |-> "2024-01-01", name |-> "Morning Run", workout_type |-> "cardio",
     duration |-> "30", calories_burned |-> 0, strings |-> {"duration"}]
MalformedJsonEntries == {JsonWellFormed, JsonMissingName, JsonStringDuration}

NextJson ==
    \/ \E user \in Users, overwrite \in BOOLEAN :
          \E payload \in {JsonUndecodable} \cup
                { [workouts |-> p] : p \in SeqsUpTo(MalformedJsonEntries, MaxRows) } :
              ImportJson(user, payload, overwrite)
    \/ Respond

SpecJson == Init /\ [][NextJson]_vars

(* ---------------------------- format tags ---------------------------- *)
\* the values of the format parameter: absent, the three formats, others
FormatTags == {None, "csv", "json", "txt", "xml", ""}

NextExport ==
    \/ \E user \in Users :
          \/ \E payload \in { [workouts |-> p] : p \in SeqsUpTo(OrderJsonEntries, MaxRows) } :
                ImportJson(user, payload, FALSE)
          \/ \E format \in FormatTags : ExportData(user, format)
    \/ Respond

SpecExport == Init /\ [][NextExport]_vars

(* ------------------------- one workout, N rows ------------------------ *)
\* a workout with two exercises as the CSV format writes it: two rows that
\* repeat the workout fields; and a row whose sets do not parse
CsvRunning == CsvLine("Morning Run", "cardio", "30", "300", "Running", "1")
CsvSquats == CsvLine("Morning Run", "cardio", "30", "300", "Squats", "3")
CsvBadSets == CsvLine("Leg Day", "strength", "45", "270", "Running", "x")
RepeatCsvRows == {CsvRunning, CsvSquats, CsvBadSets}

NextCsv ==
    \/ \E user \in Users :
          \/ \E payload \in SeqsUpTo(RepeatCsvRows, MaxRows), overwrite \in BOOLEAN :
                ImportCsv(user, payload, overwrite)
          \/ ExportCsv(user)
    \/ Respond

SpecCsv == Init /\ [][NextCsv]_vars

(* --------------------------- lines of a text file --------------------- *)
\* the lines of the uploaded files: a workout line and an exercise line as
\* export_text_data writes them; a line with neither marker; a workout line
\* of three parts; a workout line whose date does not parse; an exercise
\* line whose sets do not parse; a blank line; a comment
FileLines ==
    { Line("WORKOUT:", <<"Morning Run", "cardio", "2024-01-01", "30", "300">>),
      Line("EXERCISE:", <<"Running", "cardio", "1", "1", "0", "0">>),
      Line("other", <<>>),
      Line("WORKOUT:", <<"Leg Day", "strength", "2024-01-01">>),
      Line("WORKOUT:", <<"Leg Day", "strength", "01/01/2024", "45">>),
      Line("EXERCISE:", <<"Running", "cardio", "x", "1">>),
      Line("", <<>>),
      Line("#", <<>>) }

NextText ==
    \/ \E user \in Users, overwrite \in BOOLEAN :
          \E payload \in SeqsUpTo(FileLines, MaxRows) :
              ImportText(user, payload, overwrite)
    \/ Respond

SpecText == Init /\ [][NextText]_vars


(* ------------------------- optional fields --------------------------- *)
\* CSV rows: a file without the optional columns; a file with all columns
\* whose workout_type cell is empty; one whose calories_burned cell is
\* empty; a file with the exercise_name column only; a file with all
\* columns whose sets, reps, weight and rest_time cells are empty
CsvRequiredColumns == [date |-> "2024-01-01", name |-> "Morning Run", duration |-> "30"]
CsvEmptyType == CsvLine("Leg Day", "", "45", "270", "", "")
CsvEmptyCalories == CsvLine("Evening Walk", "cardio", "30", "", "", "")
CsvExerciseNameOnly ==
    [date |-> "2024-01-02", name |-> "Morning Run", duration |-> "30",
     calories_burned |-> "300", exercise_name |-> "Running"]
CsvEmptyExerciseCells ==
    [CsvLine("Leg Day", "strength", "45", "270", "Squats", "")
        EXCEPT !["date"] = "2024-01-02", !["reps"] = "", !["weight"] = "",
               !["rest_time"] = ""]
OptionalCsvRows ==
    {CsvRequiredColumns, CsvEmptyType, CsvEmptyCalories, CsvExerciseNameOnly,
     CsvEmptyExerciseCells}

\* JSON entries: the required keys only; the required keys and duration
JsonRequiredOnly == [date |-> "2024-01-01", name |-> "Morning Run"]
JsonWithDuration == [date |-> "2024-01-01", name |-> "Leg Day", duration |-> 45]
OptionalJsonEntries == {JsonRequiredOnly, JsonWithDuration}

NextDefaults ==
    \/ \E user \in Users, overwrite \in BOOLEAN :
          \/ \E payload \in SeqsUpTo(OptionalCsvRows, MaxRows) :
                ImportCsv(user, payload, overwrite)
          \/ \E payload \in { [workouts |-> p] :
                                p \in SeqsUpTo(OptionalJsonEntries, MaxRows) } :
                ImportJson(user, payload, overwrite)
    \/ Respond

SpecDefaults == Init /\ [][NextDefaults]_vars


(* --------------------------- future dates ---------------------------- *)
\* of each format, one record dated in the past and one dated after today
DatedCsvRows ==
    { CsvLine("Morning Run", "cardio", "30", "300", "", ""),
      [CsvLine("Leg Day", "strength", "45", "270", "Running", "1")
          EXCEPT !["date"] = "2999-01-01"] }
DatedJsonEntries ==
    { [date |-> "2024-01-02", name |-> "Morning Run", workout_type |-> "cardio",
       duration |-> 30, calories_burned |-> 300],
      [date |-> "2999-01-01", name |-> "Leg Day", workout_type |-> "strength",
       duration |-> 45, calories_burned |-> 270] }
DatedTextLines ==
    { Line("WORKOUT:", <<"Leg Day", "strength", "2024-01-01", "45", "270">>),
      Line("WORKOUT:", <<"Morning Run", "cardio", "2999-01-01", "30", "300">>) }

NextDates ==
    \/ \E user \in Users, overwrite \in BOOLEAN :
          \/ \E payload \in SeqsUpTo(DatedCsvRows, MaxRows) :
                ImportCsv(user, payload, overwrite)
          \/ \E payload \in { [workouts |-> p] :
                                p \in SeqsUpTo(DatedJsonEntries, MaxRows) } :
                ImportJson(user, payload, overwrite)
          \/ \E payload \in SeqsUpTo(DatedTextLines, MaxRows) :
                ImportText(user, payload, overwrite)
    \/ Respond

SpecDates == Init /\ [][NextDates]_vars


(* ----------------------------- accounts ------------------------------ *)
\* A UserProfile row: its user (OneToOneField, unique) and the five fields.
UserProfile(user, f) ==
    [user |-> user, age |-> f.age, weight |-> f.weight, height |-> f.height,
     activity_level |-> f.activity_level, fitness_goal |-> f.fitness_goal]

\* the values both receivers create a profile with
ProfileDefaults ==
    [age |-> 25, weight |-> 70, height |-> 170, activity_level |-> "sedentary",
     fitness_goal |-> "general_fitness"]

\* the two account tables during one request
AccountState(us, ps) == [us |-> us, ps |-> ps, status |-> "ok"]

\* user.profile: the row of the user, or DoesNotExist
HasProfile(ps, user) == \E p \in ps : p.user = user

\* UserProfile.objects.create(user=user, ...): the unique constraint of the
\* OneToOneField rejects a second row for the user
ProfileCreate(st, user, f) ==
    IF HasProfile(st.ps, user)
    THEN [st EXCEPT !.status = "IntegrityError"]
    ELSE [st EXCEPT !.ps = @ \cup {UserProfile(user, f)}]

\* profile.save() after the fields were assigned from f
ProfileUpdate(st, user, f) ==
    [st EXCEPT !.ps = {IF p.user = user THEN UserProfile(user, f) ELSE p : p \in @}]

\* post_save receiver of User, connected first
create_user_profile(st, instance, created) ==
    IF created THEN ProfileCreate(st, instance, ProfileDefaults) ELSE st

\* the second receiver without its except branch
save_user_profile_no_create(st, instance) == st

\* post_save receiver of User, connected second: instance.profile.save(),
\* or the create of the except branch.  It does not run when the first
\* receiver raised.
save_user_profile(st, instance) ==
    IF st.status # "ok" THEN st
    ELSE IF HasProfile(st.ps, instance) THEN st
    ELSE ProfileCreate(st, instance, ProfileDefaults)

\* user.save(): the row is written, then the receivers run in the order
\* they were connected
UserSave(st, instance) ==
    LET created == instance \notin st.us
    IN  save_user_profile(
            create_user_profile([st EXCEPT !.us = @ \cup {instance}],
                                instance, created),
            instance)

\* the usernames and the cleaned_data of a valid UserProfileForm
Accounts == {"u1", "u2"}
ProfileForms ==
    { [age |-> 30, weight |-> 80, height |-> 180, activity_level |-> "very_active",
       fitness_goal |-> "gain_muscle"],
      [age |-> 25, weight |-> 70, height |-> 170, activity_level |-> "sedentary",
       fitness_goal |-> "lose_weight"],
      [age |-> 13, weight |-> 30, height |-> 100, activity_level |-> "lightly_active",
       fitness_goal |-> "general_fitness"] }

\* a request on the account tables: `saved` is the user's profile rows as
\* user.save() left them
AccountCall(op, user, st, saved) ==
    /\ last.op = "idle"
    /\ auth_users' = st.us
    /\ profiles' = st.ps
    /\ UNCHANGED <<workouts, exercises>>
    /\ before' = [ws |-> workouts, es |-> exercises]
    /\ last' = [Idle EXCEPT !.op = op, !.user = user, !.status = st.status,
                            !.payload = [saved |-> saved]]

\* register: user_form.save(), then the profile the signal made is updated
\* from the profile form
register(username, form) ==
    /\ username \notin auth_users
    /\ LET st == UserSave(AccountState(auth_users, profiles), username)
       IN  AccountCall("register", username,
                       IF st.status = "ok" THEN ProfileUpdate(st, username, form) ELSE st,
                       {p \in st.ps : p.user = username})

\* user_login: login() stamps last_login with user.save()
user_login(username) ==
    /\ username \in auth_users
    /\ LET st == UserSave(AccountState(auth_users, profiles), username)
       IN  AccountCall("user_login", username, st, {p \in st.ps : p.user = username})

\* profile_view with a valid form: the profile, created if missing, is
\* updated from the form
profile_view(username, form) ==
    /\ username \in auth_users
    /\ LET st0 == AccountState(auth_users, profiles)
           st == IF HasProfile(profiles, username) THEN st0
                 ELSE ProfileCreate(st0, username, ProfileDefaults)
       IN  AccountCall("profile_view", username, ProfileUpdate(st, username, form), {})

\* the delete action of UserProfileAdmin
admin_delete_profile(username) ==
    /\ HasProfile(profiles, username)
    /\ AccountCall("admin_delete_profile", username,
                   AccountState(auth_users, {p \in profiles : p.user # username}), {})

NextAccounts ==
    \/ \E username \in Accounts :
          \/ \E form \in ProfileForms : register(username, form)
          \/ user_login(username)
          \/ \E form \in ProfileForms : profile_view(username, form)
          \/ admin_delete_profile(username)
    \/ Respond

SpecAccounts == Init /\ [][NextAccounts]_vars


(* ------------------------ JSON between accounts ---------------------- *)
\* uploads of a well-formed entry and of one whose duration is a string,
\* by two users; the document one user exported may be imported by either
NextTransfer ==
    \/ \E user \in TwoUsers, overwrite \in BOOLEAN :
          \E payload \in Uploads({ [workouts |-> p] :
                                     p \in SeqsUpTo({JsonWellFormed, JsonStringDuration},
                                                    MaxRows) },
                                 "import_json") :
              ImportJson(user, payload, overwrite)
    \/ \E user \in TwoUsers : ExportJson(user)
    \/ Respond

SpecTransfer == Init /\ [][NextTransfer]_vars


(* ---------------------- files of several workouts -------------------- *)
\* text files one line longer than the other uploads, so that an EXERCISE
\* line can follow two WORKOUT lines
NextAttach ==
    \/ \E user \in Users, overwrite \in BOOLEAN :
          \E payload \in SeqsUpTo(TextLines, MaxRows + 1) :
              ImportText(user, payload, overwrite)
    \/ Respond

SpecAttach == Init /\ [][NextAttach]_vars


(* ------------------------------ claims ------------------------------- *)
IsImport == last.op \in ImportOps

NewWorkouts == workouts \ before.ws
NewExercises == exercises \ before.es

OfUser(ws, user) == {w \in ws : w.user = user}

\* the (name, date) keys of the records of the last call's payload
CsvKeys(p) ==
    { <<p[i]["name"], strptime(p[i]["date"])>> :
        i \in {j \in DOMAIN p : /\ "name" \in DOMAIN p[j] /\ "date" \in DOMAIN p[j]
                                /\ IsDate(p[j]["date"])} }
TextKeys(p) ==
    { <<p[i].parts[1], strptime(p[i].parts[3])>> :
        i \in {j \in DOMAIN p : /\ p[j].marker = "WORKOUT:" /\ Len(p[j].parts) >= 3
                                /\ IsDate(p[j].parts[3])} }
PayloadKeys ==
    CASE last.op = "import_csv" -> CsvKeys(last.payload)
      [] last.op = "import_json" -> CsvKeys(Get(last.payload, "workouts", <<>>))
      [] last.op = "import_text" -> TextKeys(last.payload)
      [] OTHER -> {}

\* the workouts the user had before the call that a payload record names
Matched ==
    {w \in before.ws : w.user = last.user /\ <<w.name, w.date>> \in PayloadKeys}

SameScalars(v, w) ==
    /\ v.name = w.name /\ v.workout_type = w.workout_type /\ v.date = w.date
    /\ v.duration = w.duration /\ v.calories_burned = w.calories_burned
    /\ v.notes = w.notes

\* a user's data without the keys: the bag of workouts, each with its scalar
\* fields and the bag of its exercises
ExerciseData(e) ==
    [exercise_name |-> e.exercise_name, category |-> e.category, sets |-> e.sets,
     reps |-> e.reps, weight |-> e.weight, rest_time |-> e.rest_time,
     notes |-> e.notes]
ExerciseBag(es, wpk) ==
    LET mine == {e \in es : e.workout = wpk}
    IN  [d \in {ExerciseData(e) : e \in mine} |->
            Cardinality({e \in mine : ExerciseData(e) = d})]
WorkoutData(es, w) ==
    [name |-> w.name, workout_type |-> w.workout_type, date |-> w.date,
     duration |-> w.duration, calories_burned |-> w.calories_burned,
     notes |-> w.notes, exercises |-> ExerciseBag(es, w.pk)]
UserData(ws, es, user) ==
    LET mine == OfUser(ws, user)
    IN  [d \in {WorkoutData(es, w) : w \in mine} |->
            Cardinality({w \in mine : WorkoutData(es, w) = d})]

\* C1: an import that raises leaves both tables as they were before the call.
C1_FailedImportWritesNothing ==
    (IsImport /\ last.status # "ok")
        => (workouts = before.ws /\ exercises = before.es)

\* C2: an import with overwrite=true creates no Workout for a (user, name,
\* date) the user already had before the call: the existing row is updated
\* in place, the number of the user's Workouts does not grow by it and the
\* imported counter does not count it.
C2_OverwriteCreatesNoDuplicate ==
    (IsImport /\ last.overwrite)
        => \A i \in DOMAIN last.created :
              ~\E w \in OfUser(before.ws, last.user) :
                  w.name = last.created[i].name /\ w.date = last.created[i].date

\* C3: a JSON or text import with overwrite=true that names an existing
\* Workout deletes the Exercises that Workout had before the call.
C3_OverwriteReplacesExercises ==
    (last.op \in {"import_json", "import_text"} /\ last.overwrite /\ last.status = "ok")
        => \A w \in Matched :
              w = FilterFirst(before.ws, w.user, w.name, w.date)
                 => \A e \in before.es : e.workout = w.pk => e \notin exercises

\* C4: importing with overwrite=true the file the same user has just
\* exported succeeds and leaves the user with the same Workouts, each with
\* the same scalar fields and the same bag of Exercises.
C4_ExportImportRoundTrip ==
    (IsImport /\ last.source = last.user /\ last.overwrite)
        => /\ last.status = "ok"
           /\ UserData(workouts, exercises, last.user)
                 = UserData(before.ws, before.es, last.user)

\* C5: an import with overwrite=false leaves every Workout the user already
\* had, and that a payload record names by name and date, with the same
\* name, workout_type, date, duration, calories_burned and notes.
C5_NoOverwriteKeepsFields ==
    (IsImport /\ ~last.overwrite)
        => \A w \in Matched : \E v \in workouts : v.pk = w.pk /\ SameScalars(v, w)

\* C6: the second of two consecutive import_csv_data calls with the same
\* payload, user and overwrite=false leaves the numbers of Workouts and of
\* Exercises as the first call left them, and returns imported=0, exercises=0.
C6_CsvImportIdempotent ==
    (last.op = "import_csv" /\ ~last.overwrite /\ last.repeat)
        => /\ Cardinality(workouts) = Cardinality(before.ws)
           /\ Cardinality(exercises) = Cardinality(before.es)
           /\ last.status = "ok" => (last.imported = 0 /\ last.exercises = 0)

\* C6 for a payload whose first import returned
CsvIdempotentAfterSuccess ==
    (last.op = "import_csv" /\ ~last.overwrite /\ last.repeat
        /\ last.first_status = "ok")
        => /\ workouts = before.ws /\ exercises = before.es
           /\ last.status = "ok" /\ last.imported = 0 /\ last.exercises = 0

\* C7: no import stores a Workout or an Exercise that carries a value outside
\* the ranges and choices of the data model.
C7_ImportRejectsOutOfRange ==
    IsImport => /\ \A w \in NewWorkouts : WorkoutValid(w)
                /\ \A e \in NewExercises : ExerciseValid(e)

\* the row with reps=150 and weight=0, imported alone, is accepted and stored
BodyweightHighRepsAccepted ==
    (last.op = "import_csv" /\ last.payload = <<CsvHighRepsBodyweight>>
        /\ (last.overwrite \/ Matched = {}))
        => /\ last.status = "ok"
           /\ \E e \in NewExercises : e.reps = 150 /\ is_bodyweight(e)

\* C8: no import stores an Exercise with weight > 0 and reps > 100 (the
\* import fails instead), and an Exercise with reps=150 and weight=0 is
\* accepted and stored.
C8_ImportEnforcesRepsRule ==
    /\ IsImport => \A e \in NewExercises : ExerciseClean(e)
    /\ BodyweightHighRepsAccepted

\* C9: a Workout created with calories_burned=0 (by an import or by
\* workout_create) has the rate of its type times its duration stored when
\* the call is over, also after Exercises were attached to it in that call.
C9_CaloriesAutoFilled ==
    (IsImport \/ last.op = "workout_create")
        => \A i \in DOMAIN last.created :
              LET c == last.created[i]
                  rate == CASE c.workout_type = "cardio" -> 8
                            [] c.workout_type = "strength" -> 6
                            [] c.workout_type = "flexibility" -> 3
                            [] c.workout_type = "sports" -> 7
                            [] c.workout_type = "mixed" -> 6
                            [] OTHER -> 5
              IN  (c.calories_burned = 0 /\ c.workout_type \in WORKOUT_TYPES)
                     => \E w \in workouts :
                           w.pk = c.pk /\ w.calories_burned = c.duration * rate

\* C9 witness: an import created a cardio Workout of 30 minutes with
\* calories_burned=0 and attached an Exercise to it; 240 is stored.
C9_Witness ==
    /\ IsImport
    /\ \E i \in DOMAIN last.created :
          /\ last.created[i].calories_burned = 0
          /\ last.created[i].workout_type = "cardio"
          /\ last.created[i].duration = 30
          /\ \E e \in NewExercises : e.workout = last.created[i].pk
          /\ \E w \in workouts : w.pk = last.created[i].pk /\ w.calories_burned = 240

\* a text payload of one well-formed WORKOUT line with explicit non-zero
\* calories followed by one well-formed EXERCISE line
FreshTextScenario ==
    /\ last.op = "import_text"
    /\ OfUser(before.ws, last.user) = {}
    /\ Len(last.payload) = 2
    /\ last.payload[1].marker = "WORKOUT:"
    /\ Len(last.payload[1].parts) >= 5
    /\ TextWorkoutParses(last.payload[1].parts)
    /\ int(last.payload[1].parts[5]) # 0
    /\ last.payload[2].marker = "EXERCISE:"
    /\ Len(last.payload[2].parts) >= 4
    /\ TextExerciseParses(last.payload[2].parts)

\* C10: the fresh text import of such a payload returns imported=1 and
\* exercises=1 and leaves the user exactly one Workout with the parsed
\* duration and calories and exactly one Exercise with the parsed name and
\* weight.
C10_FreshTextImport ==
    FreshTextScenario
        => LET wp == last.payload[1].parts
               ep == last.payload[2].parts
               mine == OfUser(workouts, last.user)
           IN  /\ last.status = "ok"
               /\ last.imported = 1
               /\ last.exercises = 1
               /\ Cardinality(mine) = 1
               /\ \A w \in mine :
                     /\ w.duration = int(wp[4])
                     /\ w.calories_burned = int(wp[5])
                     /\ Cardinality({e \in exercises : e.workout = w.pk}) = 1
                     /\ \A e \in exercises :
                           e.workout = w.pk
                              => /\ e.exercise_name = ep[1]
                                 /\ e.weight = (IF Len(ep) > 4 THEN float(ep[5]) ELSE 0)

\* C10 witness: the scenario of the specification: duration 30, calories 300
\* and one bodyweight Exercise named Running.
C10_Witness ==
    /\ FreshTextScenario
    /\ \E w \in OfUser(workouts, last.user) :
          /\ w.duration = 30 /\ w.calories_burned = 300
          /\ \E e \in exercises :
                e.workout = w.pk /\ e.exercise_name = "Running" /\ is_bodyweight(e)

\* ---- C11 ----
ExportOps == {"export_csv", "export_json", "export_text"}

KeysOf(ws) == { <<w.name, w.date>> : w \in ws }

\* the (name, date) keys and the exercise names an export body shows
ExportKeys ==
    CASE last.op = "export_csv" -> CsvKeys(last.payload)
      [] last.op = "export_json" -> CsvKeys(last.payload.workouts)
      [] last.op = "export_text" -> TextKeys(last.payload)
      [] OTHER -> {}
ExportExerciseNames ==
    CASE last.op = "export_csv" ->
            { last.payload[i]["exercise_name"] : i \in DOMAIN last.payload } \ {""}
      [] last.op = "export_json" ->
            UNION { { last.payload.workouts[i].exercises[j].exercise_name :
                        j \in DOMAIN last.payload.workouts[i].exercises } :
                    i \in DOMAIN last.payload.workouts }
      [] last.op = "export_text" ->
            { last.payload[i].parts[1] :
                i \in {j \in DOMAIN last.payload : last.payload[j].marker = "EXERCISE:"} }
      [] OTHER -> {}

\* every row an import wrote or changed is the caller's, and every Exercise
\* it created hangs on a Workout of the caller
ImportWritesOwnRows ==
    IsImport
        => /\ \A w \in workouts \ before.ws : w.user = last.user
           /\ \A w \in before.ws \ workouts : w.user = last.user
           /\ \A e \in NewExercises :
                 \E w \in workouts : w.pk = e.workout /\ w.user = last.user

\* another user's Workout of the same name and date is no match: a
\* successful import without overwrite creates the record for the caller
LookupMatchesOwnRows ==
    (IsImport /\ ~last.overwrite /\ last.status = "ok")
        => \A k \in PayloadKeys \ KeysOf(OfUser(before.ws, last.user)) :
              \E w \in NewWorkouts : w.user = last.user /\ <<w.name, w.date>> = k

\* an export shows Workouts and Exercises of the caller only
ExportShowsOwnRows ==
    last.op \in ExportOps
        => /\ ExportKeys = KeysOf(OfUser(workouts, last.user))
           /\ ExportExerciseNames =
                 { e.exercise_name :
                     e \in {x \in exercises :
                              \E w \in OfUser(workouts, last.user) : w.pk = x.workout} }

\* C11: identity isolation.  Every Workout an import creates or modifies
\* belongs to the calling user, every Exercise it creates is attached to a
\* Workout of that user, the lookup for an existing workout matches that
\* user's Workouts only, and an export contains the requesting user's
\* Workouts and their Exercises only.
C11_IdentityIsolation ==
    /\ ImportWritesOwnRows
    /\ LookupMatchesOwnRows
    /\ ExportShowsOwnRows

\* C11 witness: u2 imports without overwrite a record whose name and date
\* u1 already has; it is created for u2 and u1's rows are as before.
C11_Witness ==
    /\ IsImport /\ last.user = "u2" /\ ~last.overwrite /\ last.status = "ok"
    /\ \E k \in PayloadKeys :
          /\ k \in KeysOf(OfUser(before.ws, "u1"))
          /\ k \notin KeysOf(OfUser(before.ws, "u2"))
          /\ k \in KeysOf(OfUser(NewWorkouts, "u2"))
    /\ OfUser(workouts, "u1") = OfUser(before.ws, "u1")

\* ---- C12 ----
\* x comes before y: later date, or the same date and created later
Newer(x, y) == x.date > y.date \/ (x.date = y.date /\ x.pk > y.pk)

\* the user's Workouts newest first, and a Workout's Exercises oldest first
NewestFirst(user) ==
    LET mine == OfUser(workouts, user)
    IN  CHOOSE s \in [1..Cardinality(mine) -> mine] :
            \A i, j \in DOMAIN s : i < j => Newer(s[i], s[j])
OldestFirst(w) ==
    LET mine == {e \in exercises : e.workout = w.pk}
    IN  CHOOSE s \in [1..Cardinality(mine) -> mine] :
            \A i, j \in DOMAIN s : i < j => s[i].pk < s[j].pk

\* what each body must list, in order: per Workout its name and date and
\* then the names of its Exercises
ExpectedJson ==
    LET s == NewestFirst(last.user)
    IN  [i \in DOMAIN s |->
            <<s[i].name, strftime(s[i].date),
              [j \in DOMAIN OldestFirst(s[i]) |-> OldestFirst(s[i])[j].exercise_name]>>]
ExpectedCsv ==
    LET s == NewestFirst(last.user)
    IN  Flatten([i \in DOMAIN s |->
            IF OldestFirst(s[i]) = <<>>
            THEN << <<s[i].name, strftime(s[i].date), "">> >>
            ELSE [j \in DOMAIN OldestFirst(s[i]) |->
                     <<s[i].name, strftime(s[i].date),
                       OldestFirst(s[i])[j].exercise_name>>]])
ExpectedText ==
    LET s == NewestFirst(last.user)
    IN  Flatten([i \in DOMAIN s |->
            << <<"WORKOUT:", s[i].name, strftime(s[i].date)>> >>
            \o [j \in DOMAIN OldestFirst(s[i]) |->
                   <<"EXERCISE:", OldestFirst(s[i])[j].exercise_name>>]])

IsRecordLine(l) == l.marker \in {"WORKOUT:", "EXERCISE:"}
ShownJson ==
    [i \in DOMAIN last.payload.workouts |->
        <<last.payload.workouts[i].name, last.payload.workouts[i].date,
          [j \in DOMAIN last.payload.workouts[i].exercises |->
              last.payload.workouts[i].exercises[j].exercise_name]>>]
ShownCsv ==
    [i \in DOMAIN last.payload |->
        <<last.payload[i]["name"], last.payload[i]["date"],
          last.payload[i]["exercise_name"]>>]
ShownText ==
    LET recs == SelectSeq(last.payload, IsRecordLine)
    IN  [i \in DOMAIN recs |->
            IF recs[i].marker = "WORKOUT:"
            THEN <<"WORKOUT:", recs[i].parts[1], recs[i].parts[3]>>
            ELSE <<"EXERCISE:", recs[i].parts[1]>>]

\* C12: in every export format the workouts are listed by date descending,
\* ties by creation time descending, and within each workout its exercises
\* in creation order, oldest first.
C12_ExportOrdering ==
    /\ last.op = "export_json" => ShownJson = ExpectedJson
    /\ last.op = "export_csv" => ShownCsv = ExpectedCsv
    /\ last.op = "export_text" => ShownText = ExpectedText

\* C12 witness: an export of two Workouts on different dates, the one with
\* the later date created first, one of them with two Exercises that differ
\* in name.
C12_Witness ==
    /\ last.op \in ExportOps
    /\ \E v, w \in OfUser(workouts, last.user) : v.date > w.date /\ v.pk < w.pk
    /\ \E d, e \in exercises :
          d.workout = e.workout /\ d.pk < e.pk /\ d.exercise_name # e.exercise_name

\* ---- C13 ----
\* the document does not parse, or one of its entries lacks date or name or
\* spells a number as a string
MalformedEntry(entry) ==
    \/ "date" \notin DOMAIN entry
    \/ "name" \notin DOMAIN entry
    \/ Strings(entry) # {}
MalformedDocument(data) ==
    \/ data = JsonUndecodable
    \/ \E i \in DOMAIN Get(data, "workouts", <<>>) : MalformedEntry(data.workouts[i])

\* C13: import_json_data on a malformed document fails and writes nothing:
\* no Workout or Exercise of its well-formed entries is in the store after
\* the failure.
C13_MalformedJsonWritesNothing ==
    (last.op = "import_json" /\ MalformedDocument(last.payload))
        => /\ last.status # "ok"
           /\ workouts = before.ws
           /\ exercises = before.es

\* ---- C14 ----
\* the rows a CSV export of the user must have: one per Exercise, one for a
\* Workout without Exercises
CsvRowsDue(user) ==
    { <<p[1].pk, p[2].pk>> :
        p \in {q \in OfUser(workouts, user) \X exercises : q[2].workout = q[1].pk} }
    \cup { <<w.pk, 0>> : w \in {v \in OfUser(workouts, user) :
                                   ~\E x \in exercises : x.workout = v.pk} }

\* the body is a complete CSV / JSON / text export of the user's workouts
CompleteCsv(body, user) ==
    /\ Len(body) = Cardinality(CsvRowsDue(user))
    /\ \A i \in DOMAIN body : "exercise_name" \in DOMAIN body[i]
    /\ CsvKeys(body) = KeysOf(OfUser(workouts, user))
CompleteJson(body, user) ==
    /\ DOMAIN body = {"workouts"}
    /\ Len(body.workouts) = Cardinality(OfUser(workouts, user))
    /\ CsvKeys(body.workouts) = KeysOf(OfUser(workouts, user))
CompleteText(body, user) ==
    /\ Len(SelectSeq(body, IsRecordLine)) =
          Cardinality(OfUser(workouts, user))
          + Cardinality({x \in exercises :
                           \E w \in OfUser(workouts, user) : w.pk = x.workout})
    /\ TextKeys(body) = KeysOf(OfUser(workouts, user))

\* C14: export_data with a format tag other than csv, json or txt reports
\* an error and returns no file; with each of the three tags it returns the
\* complete file for the user's workouts, also when the user has none; a
\* request without the tag gets the CSV file.
C14_ExportFormatTag ==
    last.op = "export_data"
        => LET format == last.payload.format
               response == last.payload.response
           IN  /\ format \notin {None, "csv", "json", "txt"}
                     => ~response.file /\ last.status = "error"
               /\ format \in {None, "csv"}
                     => /\ response.file /\ response.content_type = "text/csv"
                        /\ CompleteCsv(response.body, last.user)
               /\ format = "json"
                     => /\ response.file /\ response.content_type = "application/json"
                        /\ CompleteJson(response.body, last.user)
               /\ format = "txt"
                     => /\ response.file /\ response.content_type = "text/plain"
                        /\ CompleteText(response.body, last.user)

\* C14 witness: a request without the format tag, by a user with a Workout
\* that has Exercises, answered with the CSV file.
C14_Witness ==
    /\ last.op = "export_data"
    /\ last.payload.format = None
    /\ last.payload.response.file
    /\ Len(last.payload.response.body) >= 2

\* ---- C15 ----
WorkoutColumns ==
    {"date", "name", "workout_type", "duration", "calories_burned", "notes"}

\* the workout columns of a row parse
CsvWorkoutParses(row) ==
    /\ IsDate(row["date"]) /\ IsInt(row["duration"]) /\ IsInt(row["calories_burned"])

\* N >= 2 rows that repeat one workout and carry N exercises
RepeatedWorkoutRows(p) ==
    /\ Len(p) >= 2
    /\ \A i \in DOMAIN p :
          /\ \A c \in WorkoutColumns : p[i][c] = p[1][c]
          /\ CsvWorkoutParses(p[i])
          /\ p[i]["exercise_name"] # ""
          /\ CsvExerciseParses(p[i])

\* C15: import_csv_data of N >= 2 rows that repeat one workout and carry N
\* exercises, for a user without a Workout of that name and date, returns
\* imported=1 and exercises=N and leaves exactly one new Workout with the N
\* Exercises attached.
C15_CsvRowsOfOneWorkout ==
    (/\ last.op = "import_csv"
     /\ RepeatedWorkoutRows(last.payload)
     /\ Matched = {})
        => /\ last.status = "ok"
           /\ last.imported = 1
           /\ last.exercises = Len(last.payload)
           /\ Cardinality(NewWorkouts) = 1
           /\ \A w \in NewWorkouts :
                 Cardinality({e \in exercises : e.workout = w.pk}) = Len(last.payload)

\* ---- C16 ----
\* the call failed at a row whose workout columns parse and whose exercise
\* columns do not, the first row of the payload with its name and date
FailedAtExerciseColumns ==
    /\ last.op = "import_csv"
    /\ last.status = "ValidationError"
    /\ last.where \in DOMAIN last.payload
    /\ CsvWorkoutParses(last.payload[last.where])
    /\ last.payload[last.where]["exercise_name"] # ""
    /\ ~CsvExerciseParses(last.payload[last.where])
    /\ \A i \in 1..(last.where - 1) :
          \/ last.payload[i]["name"] # last.payload[last.where]["name"]
          \/ last.payload[i]["date"] # last.payload[last.where]["date"]

\* C16: when import_csv_data fails at a row whose workout fields are valid
\* and one of whose exercise fields is non-numeric, no Workout and no
\* Exercise of that row is in the store afterwards.
C16_CsvRowNotPartiallyApplied ==
    FailedAtExerciseColumns
        => \A w \in NewWorkouts :
              \/ w.name # last.payload[last.where]["name"]
              \/ w.date # strptime(last.payload[last.where]["date"])

\* ---- C17 ----
WorkoutLines(p) == {i \in DOMAIN p : p[i].marker = "WORKOUT:"}
ExerciseLines(p) == {i \in DOMAIN p : p[i].marker = "EXERCISE:"}

\* the WORKOUT line an EXERCISE line i belongs to: the nearest one above it
ActiveLine(p, i) ==
    CHOOSE j \in WorkoutLines(p) : j < i /\ \A k \in WorkoutLines(p) : k < i => k <= j

\* a well-formed payload that starts with a WORKOUT line and all of whose
\* WORKOUT lines name a Workout the user already has
AllWorkoutLinesMatch ==
    /\ last.op = "import_text" /\ ~last.overwrite
    /\ last.payload # <<>> /\ last.payload[1].marker = "WORKOUT:"
    /\ \A i \in WorkoutLines(last.payload) :
          /\ Len(last.payload[i].parts) >= 4 /\ TextWorkoutParses(last.payload[i].parts)
    /\ \A i \in ExerciseLines(last.payload) :
          /\ Len(last.payload[i].parts) >= 4 /\ TextExerciseParses(last.payload[i].parts)
    /\ TextKeys(last.payload) \subseteq KeysOf(OfUser(before.ws, last.user))

\* C17: in import_text_data with overwrite=false a WORKOUT line that matches
\* an existing Workout creates no Workout and is not counted, and every
\* EXERCISE line below it creates an Exercise attached to that existing
\* Workout and is counted; importing the same payload again adds its
\* exercises again and no Workout.
C17_TextSkipKeepsActiveWorkout ==
    AllWorkoutLinesMatch
        => /\ last.status = "ok"
           /\ last.imported = 0
           /\ last.created = <<>>
           /\ {w.pk : w \in workouts} = {w.pk : w \in before.ws}
           /\ last.exercises = Cardinality(ExerciseLines(last.payload))
           /\ Cardinality(NewExercises) = Cardinality(ExerciseLines(last.payload))
           /\ \A i \in ExerciseLines(last.payload) :
                 \E e \in NewExercises, w \in OfUser(before.ws, last.user) :
                    /\ e.pk = MaxPk(before.es)
                                + Cardinality({j \in ExerciseLines(last.payload) : j <= i})
                    /\ e.exercise_name = last.payload[i].parts[1]
                    /\ e.workout = w.pk
                    /\ w.name = last.payload[ActiveLine(last.payload, i)].parts[1]
                    /\ w.date = strptime(last.payload[ActiveLine(last.payload, i)].parts[3])

\* C17 witness: the same text payload imported a second time without
\* overwrite: no Workout more, its Exercise once more.
C17_Witness ==
    /\ last.op = "import_text" /\ ~last.overwrite /\ last.repeat
    /\ last.first_status = "ok" /\ last.status = "ok"
    /\ last.imported = 0 /\ last.exercises = 1
    /\ Cardinality(workouts) = Cardinality(before.ws)
    /\ Cardinality(exercises) = Cardinality(before.es) + 1
    /\ before.es # {}

\* the records of the last CSV or JSON payload, and whether one carries an
\* exercise
PayloadRecords ==
    CASE last.op = "import_csv" -> last.payload
      [] last.op = "import_json" -> Get(last.payload, "workouts", <<>>)
      [] OTHER -> <<>>
CarriesExercise(r) ==
    \/ last.op = "import_csv" /\ Get(r, "exercise_name", "") # ""
    \/ last.op = "import_json" /\ Get(r, "exercises", <<>>) # <<>>
PksOf(rows) == {r.pk : r \in rows}

\* C18: in a CSV or JSON import with overwrite=false a record that names a
\* Workout the user already had is skipped entirely: the Workout's row and
\* its set of Exercises are as before the call, no Workout is created under
\* its (name, date), every Exercise the call added hangs on a Workout the
\* call created, and the two counters count nothing but the rows the call
\* added.
C18_SkipLeavesMatchedWorkout ==
    (last.op \in {"import_csv", "import_json"} /\ ~last.overwrite)
        => /\ \A w \in Matched :
                /\ w \in workouts
                /\ {e \in exercises : e.workout = w.pk}
                       = {e \in before.es : e.workout = w.pk}
           /\ \A i \in DOMAIN last.created :
                <<last.created[i].name, last.created[i].date>> \notin KeysOf(Matched)
           /\ \A e \in NewExercises : e.workout \notin PksOf(before.ws)
           /\ last.imported <= Cardinality(PksOf(workouts) \ PksOf(before.ws))
           /\ last.exercises <= Cardinality(NewExercises)
           /\ last.status = "ok"
                => /\ last.imported = Cardinality(PksOf(workouts) \ PksOf(before.ws))
                   /\ last.exercises = Cardinality(NewExercises)

\* a CSV or JSON import without overwrite returned after skipping a record
\* that carries an exercise and names a Workout the user had, and after
\* creating another Workout
C18_Witness ==
    /\ last.op \in {"import_csv", "import_json"} /\ ~last.overwrite
    /\ last.status = "ok"
    /\ last.imported = 1
    /\ \E i \in DOMAIN PayloadRecords :
          /\ CarriesExercise(PayloadRecords[i])
          /\ \E w \in Matched :
                /\ w.name = PayloadRecords[i]["name"]
                /\ w.date = strptime(PayloadRecords[i]["date"])
                /\ {e \in exercises : e.workout = w.pk}
                       = {e \in before.es : e.workout = w.pk}


\* ---- C19 ----
\* a line of a text file is blank or a comment, a well-formed record, or
\* malformed
Skipped(line) == line.marker \in {"", "#"}
WellFormedLine(line) ==
    \/ /\ line.marker = "WORKOUT:"
       /\ Len(line.parts) >= 4
       /\ TextWorkoutParses(line.parts)
    \/ /\ line.marker = "EXERCISE:"
       /\ Len(line.parts) >= 4
       /\ TextExerciseParses(line.parts)
MalformedLine(line) == ~Skipped(line) /\ ~WellFormedLine(line)

\* an EXERCISE line of the file with no WORKOUT line above it
Orphan(p, n) ==
    /\ p[n].marker = "EXERCISE:"
    /\ \A k \in 1..(n - 1) : p[k].marker # "WORKOUT:"

\* the first line of the file, counted from 1, that the call must fail at
FailsAt(p, n) == MalformedLine(p[n]) \/ Orphan(p, n)
FirstFailing(p) ==
    CHOOSE n \in DOMAIN p : FailsAt(p, n) /\ \A k \in 1..(n - 1) : ~FailsAt(p, k)

\* C19: a text import of a file with a malformed line (fewer than four
\* parts, a date or number that does not parse, or neither marker) fails
\* with a ValidationError that names the 1-based number of the first line
\* of the file the call cannot accept.
C19_MalformedTextLineFails ==
    (last.op = "import_text"
       /\ \E n \in DOMAIN last.payload : MalformedLine(last.payload[n]))
        => /\ last.status = "ValidationError"
           /\ last.where = FirstFailing(last.payload)

\* ---- C20 ----
\* the file's first line that is neither blank nor a comment
FirstRecord(p, n) ==
    /\ n \in DOMAIN p
    /\ ~Skipped(p[n])
    /\ \A k \in 1..(n - 1) : Skipped(p[k])

\* C20: a text import of a file whose first record is an EXERCISE line
\* fails with a ValidationError that names that line's 1-based number, and
\* creates no Exercise.
C20_ExerciseBeforeWorkoutFails ==
    \A n \in DOMAIN last.payload :
        (last.op = "import_text" /\ FirstRecord(last.payload, n)
           /\ last.payload[n].marker = "EXERCISE:")
            => /\ last.status = "ValidationError"
               /\ last.where = n
               /\ exercises = before.es


\* ---- C21 ----
\* the user had no Workout of the entry's name and date before the call
Unmatched(r) ==
    ~\E w \in OfUser(before.ws, last.user) :
        w.name = r["name"] /\ w.date = strptime(r["date"])

\* C21: a JSON import whose entries carry the required keys date and name,
\* one of them nothing else, returns without error, and the entry with the
\* required keys only is imported as a new Workout when the user had none
\* of its name and date.
C21_RequiredKeysSuffice ==
    \A n \in DOMAIN PayloadRecords :
        (last.op = "import_json" /\ DOMAIN PayloadRecords[n] = {"date", "name"})
            => /\ last.status = "ok"
               /\ Unmatched(PayloadRecords[n])
                    => /\ last.imported >= 1
                       /\ \E i \in DOMAIN last.created :
                             /\ last.created[i].name = PayloadRecords[n]["name"]
                             /\ last.created[i].date
                                    = strptime(PayloadRecords[n]["date"])

\* ---- C22 ----
\* the value of an optional column: the default when the column is missing
\* or the cell is empty
Default(row, k, d) == IF Get(row, k, "") = "" THEN d ELSE row[k]

\* C22: a CSV import of rows whose optional fields are missing or empty
\* returns without error; every Workout it created has the workout_type and
\* calories_burned of its row with 'other' and 0 filled in, and every
\* Exercise it created has the sets, reps, weight and rest_time of its row
\* with 1, 1, 0 and 60 filled in.
C22_CsvDefaultsApply ==
    (last.op = "import_csv"
       /\ \A n \in DOMAIN last.payload : last.payload[n] \in OptionalCsvRows)
        => /\ last.status = "ok"
           /\ \A i \in DOMAIN last.created :
                \E n \in DOMAIN last.payload :
                    LET row == last.payload[n]
                    IN  /\ row["name"] = last.created[i].name
                        /\ strptime(row["date"]) = last.created[i].date
                        /\ last.created[i].workout_type
                               = Default(row, "workout_type", "other")
                        /\ last.created[i].calories_burned
                               = int(Default(row, "calories_burned", "0"))
           /\ \A e \in NewExercises :
                \E n \in DOMAIN last.payload :
                    LET row == last.payload[n]
                    IN  /\ Get(row, "exercise_name", "") = e.exercise_name
                        /\ e.sets = int(Default(row, "sets", "1"))
                        /\ e.reps = int(Default(row, "reps", "1"))
                        /\ e.weight = float(Default(row, "weight", "0"))
                        /\ e.rest_time = int(Default(row, "rest_time", "60"))


\* ---- C23 ----
\* C23: after any sequence of imports no Workout of the store is dated
\* after today: a record dated after today is never stored.
C23_NoFutureWorkout == \A w \in workouts : WorkoutClean(w)


\* ---- C24 ----
\* the columns of the header, and the seven exercise columns
ExerciseColumns ==
    {"exercise_name", "category", "sets", "reps", "weight", "rest_time",
     "exercise_notes"}
CsvColumns ==
    {"date", "name", "workout_type", "duration", "calories_burned", "notes"}
        \cup ExerciseColumns

\* row r repeats the six fields of Workout w
RepeatsWorkout(r, w) ==
    /\ r["date"] = strftime(w.date) /\ r["name"] = w.name
    /\ r["workout_type"] = w.workout_type /\ r["duration"] = str(w.duration)
    /\ r["calories_burned"] = str(w.calories_burned) /\ r["notes"] = w.notes

\* row r is the row due for d = <<pk of a Workout, pk of one of its
\* Exercises or 0>>
IsRowOf(r, d) ==
    /\ \E w \in workouts : w.pk = d[1] /\ RepeatsWorkout(r, w)
    /\ IF d[2] = 0
       THEN \A k \in ExerciseColumns : r[k] = ""
       ELSE \E e \in exercises :
               /\ e.pk = d[2]
               /\ r["exercise_name"] = e.exercise_name
               /\ r["category"] = e.category
               /\ r["sets"] = str(e.sets) /\ r["reps"] = str(e.reps)
               /\ r["rest_time"] = str(e.rest_time)
               /\ r["exercise_notes"] = e.notes

\* the data of a due row: the six fields of its Workout and the fields of
\* its Exercise
DueData(d) ==
    LET w == CHOOSE x \in workouts : x.pk = d[1]
    IN  << w.name, w.workout_type, w.date, w.duration, w.calories_burned, w.notes,
           IF d[2] = 0 THEN {}
           ELSE {ExerciseData(e) : e \in {x \in exercises : x.pk = d[2]}} >>

\* C24: the CSV export has, under its one header of thirteen columns, one
\* data row per Exercise of each Workout of the user, repeating the
\* Workout's six fields, and one data row with seven empty exercise columns
\* per Workout without Exercises: as many rows as the sum over the Workouts
\* of max(1, number of Exercises), and as many rows for each due row as
\* there are due rows like it.
C24_CsvExportRows ==
    (last.op = "export_csv")
        => LET body == last.payload
               due == CsvRowsDue(last.user)
           IN  /\ \A i \in DOMAIN body : DOMAIN body[i] = CsvColumns
               /\ Len(body) = Cardinality(due)
               /\ \A d \in due :
                     Cardinality({i \in DOMAIN body : IsRowOf(body[i], d)})
                         = Cardinality({c \in due : DueData(c) = DueData(d)})

\* a CSV export of a Workout with two Exercises and a Workout with none:
\* three data rows
C24_Witness ==
    /\ last.op = "export_csv"
    /\ Len(last.payload) = 3
    /\ \E w \in OfUser(workouts, last.user) :
          Cardinality({e \in exercises : e.workout = w.pk}) = 2
    /\ \E w \in OfUser(workouts, last.user) :
          /\ ~\E e \in exercises : e.workout = w.pk
          /\ \E i \in DOMAIN last.payload :
                /\ RepeatsWorkout(last.payload[i], w)
                /\ \A k \in ExerciseColumns : last.payload[i][k] = ""


\* ---- C25 ----
ProfilesOf(user) == {p \in profiles : p.user = user}

\* C25: after every save of a User, at its creation or later, the save has
\* not raised and the User has exactly one UserProfile; the profile the
\* creation of a User made carries the default values; and no User ever
\* has two.
C25_OneProfilePerUser ==
    /\ \A u \in auth_users : Cardinality(ProfilesOf(u)) <= 1
    /\ last.op \in {"register", "user_login"}
         => /\ last.status = "ok"
            /\ Cardinality(ProfilesOf(last.user)) = 1
            /\ Cardinality(last.payload.saved) = 1
    /\ last.op = "register"
         => last.payload.saved = {UserProfile(last.user, ProfileDefaults)}

\* a User whose profile was deleted is saved again, and has a profile with
\* the default values after the save
C25_Witness ==
    /\ last.op = "user_login"
    /\ \E u \in auth_users \ {last.user} : ProfilesOf(u) # {}
    /\ ProfilesOf(last.user) = {UserProfile(last.user, ProfileDefaults)}


\* ---- C26 ----
\* C26: when an import returns, imported is the number of Workouts the
\* call added, all of them the calling user's, so that the user has
\* imported Workouts more than before; exercises is the number of
\* Exercises the call added; and no row that was there is gone.
C26_CountersMatchStore ==
    (IsImport /\ last.status = "ok")
        => /\ PksOf(before.ws) \subseteq PksOf(workouts)
           /\ PksOf(before.es) \subseteq PksOf(exercises)
           /\ last.imported = Cardinality(PksOf(workouts) \ PksOf(before.ws))
           /\ \A w \in workouts : w.pk \notin PksOf(before.ws) => w.user = last.user
           /\ Cardinality(OfUser(workouts, last.user))
                  = Cardinality(OfUser(before.ws, last.user)) + last.imported
           /\ last.exercises = Cardinality(PksOf(exercises) \ PksOf(before.es))

\* an import into an account that has a Workout returned after adding one
\* Workout and one Exercise
C26_Witness ==
    /\ IsImport /\ last.status = "ok"
    /\ OfUser(before.ws, last.user) # {}
    /\ last.imported = 1 /\ last.exercises = 1
    /\ Cardinality(workouts) = Cardinality(before.ws) + 1
    /\ Cardinality(exercises) = Cardinality(before.es) + 1


\* ---- C27 ----
\* no two Workouts of one user have the same name and date
UniqueKeys(ws) ==
    \A v \in ws, w \in ws :
        (v.user = w.user /\ v.name = w.name /\ v.date = w.date) => v.pk = w.pk

\* a CSV row, or a WORKOUT line of a text file
IsWorkoutRecord(r) == "marker" \in DOMAIN r => r.marker = "WORKOUT:"

\* C27: an import with overwrite=false into a store in which no two
\* Workouts of a user share a name and date leaves such a store, also when
\* its payload repeats a name and date, and also when it fails.
C27_ImportKeepsKeysUnique ==
    (IsImport /\ ~last.overwrite /\ UniqueKeys(before.ws)) => UniqueKeys(workouts)

\* an import without overwrite of a payload whose two records have one name
\* and date, new to the user, returned and added one Workout
C27_Witness ==
    /\ IsImport /\ ~last.overwrite /\ last.status = "ok"
    /\ UniqueKeys(before.ws)
    /\ Len(IF last.op = "import_json" THEN last.payload.workouts
           ELSE SelectSeq(last.payload, IsWorkoutRecord)) = 2
    /\ Cardinality(PayloadKeys) = 1
    /\ Matched = {}
    /\ last.imported = 1
    /\ Cardinality(workouts) = Cardinality(before.ws) + 1


\* ---- C28 ----
\* the last call imported the JSON document that user a had just exported
ImportedExportOf(a) == last.op = "import_json" /\ last.source = a

\* C28: importing the JSON export of user A, none of whose Workouts share
\* a name and date, for a user B without Workouts returns, gives B the
\* Workouts of A with the same scalar fields and the same bag of Exercises
\* each, and returns A's numbers of Workouts and of Exercises.
C28_JsonTransfer ==
    \A a \in TwoUsers :
        (/\ ImportedExportOf(a)
         /\ UniqueKeys(OfUser(before.ws, a))
         /\ OfUser(before.ws, last.user) = {})
            => /\ last.status = "ok"
               /\ UserData(workouts, exercises, last.user)
                      = UserData(before.ws, before.es, a)
               /\ last.imported = Cardinality(OfUser(before.ws, a))
               /\ last.exercises =
                      Cardinality({e \in before.es :
                                      \E w \in OfUser(before.ws, a) : w.pk = e.workout})


\* ---- C29 ----
\* the name and date a WORKOUT line j states, and the WORKOUT lines up to j
LineKey(p, j) == <<p[j].parts[1], strptime(p[j].parts[3])>>
WorkoutLinesUpTo(p, j) == {k \in WorkoutLines(p) : k <= j}

\* the pk of the Workout the WORKOUT line j of the last text import
\* resolved: with overwrite=true every WORKOUT line creates one; with
\* overwrite=false the line finds the Workout the user had, or the one the
\* first line of its name and date created
ResolvedPk(p, j) ==
    LET had == KeysOf(OfUser(before.ws, last.user))
    IN  IF last.overwrite
        THEN last.created[Cardinality(WorkoutLinesUpTo(p, j))].pk
        ELSE IF LineKey(p, j) \in had
        THEN FilterFirst(before.ws, last.user, LineKey(p, j)[1], LineKey(p, j)[2]).pk
        ELSE LET first == CHOOSE k \in WorkoutLinesUpTo(p, j) :
                              /\ LineKey(p, k) = LineKey(p, j)
                              /\ \A m \in WorkoutLinesUpTo(p, k) :
                                    LineKey(p, m) = LineKey(p, j) => m = k
             IN  last.created[Cardinality({LineKey(p, k) :
                                              k \in WorkoutLinesUpTo(p, first)} \ had)].pk

\* the EXERCISE lines that created an Exercise: the call stops at the first
\* line it fails at
CreatingLines(p) ==
    {i \in ExerciseLines(p) :
        Cardinality({k \in ExerciseLines(p) : k <= i})
            <= Cardinality(PksOf(exercises) \ PksOf(before.es))}

\* C29: every Exercise a text import created, the k-th one by the k-th
\* EXERCISE line, is attached to the Workout that the nearest WORKOUT line
\* above that line created or looked up: a Workout of the calling user with
\* the name and date of that line.
C29_ExerciseAttachesToNearestWorkout ==
    (last.op = "import_text")
        => /\ \A e \in exercises :
                e.pk \notin PksOf(before.es)
                    => \E i \in CreatingLines(last.payload) :
                          e.pk = MaxPk(before.es)
                                   + Cardinality({k \in ExerciseLines(last.payload) : k <= i})
           /\ \A i \in CreatingLines(last.payload) :
                \E e \in exercises, w \in workouts :
                    LET p == last.payload
                        j == ActiveLine(p, i)
                    IN  /\ e.pk = MaxPk(before.es)
                                    + Cardinality({k \in ExerciseLines(p) : k <= i})
                        /\ e.exercise_name = p[i].parts[1]
                        /\ e.workout = w.pk
                        /\ w.pk = ResolvedPk(p, j)
                        /\ w.user = last.user
                        /\ <<w.name, w.date>> = LineKey(p, j)

\* a text import of two WORKOUT lines of different names and an EXERCISE
\* line below them attached the Exercise to the Workout of the second line
C29_Witness ==
    /\ last.op = "import_text" /\ last.status = "ok"
    /\ Len(last.payload) = 3
    /\ WorkoutLines(last.payload) = {1, 2}
    /\ ExerciseLines(last.payload) = {3}
    /\ LineKey(last.payload, 1) # LineKey(last.payload, 2)
    /\ \E e \in exercises, w \in workouts :
          /\ e.pk \notin PksOf(before.es)
          /\ e.workout = w.pk
          /\ <<w.name, w.date>> = LineKey(last.payload, 2)


\* ---- C30 ----
\* the calls that save a Workout or an Exercise
SavingOps == ImportOps \cup {"workout_create", "exercise_create"}

\* C30: a call that saves Workouts and Exercises leaves every Workout that
\* was stored with calories_burned other than 0 with the row it had, also
\* when Exercises were attached to it; and a Workout the call created with
\* calories_burned other than 0 is stored with the six fields it was
\* created with, also after Exercises were attached to it in that call.
C30_SignalsKeepGivenCalories ==
    (last.op \in SavingOps)
        => /\ \A w \in before.ws : w.calories_burned # 0 => w \in workouts
           /\ \A i \in DOMAIN last.created :
                 ~CaloriesIsZero(last.created[i]) => Row(last.created[i]) \in workouts

\* a text import without overwrite attached an Exercise to a Workout that
\* was stored with calories_burned other than 0; its row is as it was
C30_Witness ==
    /\ last.op = "import_text" /\ ~last.overwrite /\ last.status = "ok"
    /\ \E w \in before.ws :
          /\ w.calories_burned # 0
          /\ w \in workouts
          /\ \E e \in exercises : e.pk \notin PksOf(before.es) /\ e.workout = w.pk

====
